---- MODULE Spec2Model ----
(***************************************************************************)
(* Diffusion tracking stage of connectomemapper3                           *)
(* (cmp/stages/diffusion/tracking.py): the tracking configuration objects  *)
(* with their trait-change handlers, and the create_*_tracking_flow        *)
(* functions that assemble a nipype workflow from a configuration; and    *)
(* the interfaces make_seeds, make_mrtrix_seeds and match_orientations of  *)
(* the same file, run on drawn inputs under SpecSeeds and SpecOrient.      *)
(*                                                                         *)
(* Floats are fixed-point integers.  curvature is counted in units of      *)
(* 1e-7, so that 1e-6 is 10 and 2.0 is 20000000.  trace is a pair          *)
(* (mant, exp10) standing for mant * 10^exp10, so that a rescale by 1e6    *)
(* moves exp10 by 6.                                                       *)
(*                                                                         *)
(* A trait assignment follows traits.HasTraits: the value is stored, and   *)
(* the static handler _<name>_changed runs only when the new value differs *)
(* from the one held.  An assignment made inside a handler is again a      *)
(* trait assignment.                                                       *)
(***************************************************************************)
EXTENDS Integers, FiniteSets, Sequences, TLC

VARIABLES
    backend,        \* the tracking tool whose configuration object is in use
    dtb_config, dipy_config, mrtrix_config, camino_config,
    flow,           \* the workflow the last call returned (empty otherwise)
    raised,         \* the exception the last call raised, "none" otherwise
    last,           \* the last operation, its argument, the curvature before it
    trace_written,  \* history: trace of the Camino config was assigned directly
    seeds,          \* a seed-mask interface: its inputs, the files it wrote,
                    \* the seed_files it reports, the exception it raised
    orient,         \* a match_orientations interface: the file it reads, the
                    \* reference image, the file it wrote
    fanout,         \* the invocations of the probtrackx MapNode of the FSL
                    \* graph on the seed_files reported
    filt,           \* a streamline-filtering interface: its inputs, the tool
                    \* calls it made, the files written, the outputs reported
    seg             \* the segmentation stage: its configuration, the workflow
                    \* built, the nodes the engine has started and finished

iface_vars == <<seeds, orient, fanout, filt, seg>>

config_vars == <<backend, dtb_config, dipy_config, mrtrix_config,
                 camino_config, flow, raised, last, trace_written>>

vars == <<backend, dtb_config, dipy_config, mrtrix_config, camino_config,
          flow, raised, last, trace_written, seeds, orient, fanout, filt, seg>>

(***************************************************************************)
(* Value domains                                                           *)
(***************************************************************************)
Backends == {"DTB", "Dipy", "MRtrix", "Camino", "FSL", "Gibbs"}

\* tracking_mode is a Str trait: it holds any string, '' by default.
TrackingModes == {"", "Deterministic", "Probabilistic"}

\* imaging_model is a Str trait, '' by default.
ImagingModels == {"", "DTI", "DSI", "HARDI"}

CurvatureEps == 10
CurvatureDetTensor == 20000000
CurvatureDetSD == 0
CurvatureProb == 10000000
CurvatureDefault == 20000000

\* Values a caller assigns to curvature: below, at and just above the
\* epsilon, and ordinary radii.
CurvatureInputs ==
    {0 - CurvatureEps, 0, CurvatureEps - 5, CurvatureEps, CurvatureEps + 1,
     CurvatureProb, CurvatureDetTensor, 30000000}

UnitsValues == {"m^2/s", "s/mm^2"}
UnitsRescaleExp == 6
TraceDefault == [mant |-> 21, exp10 |-> -10]
TraceInputs == {[mant |-> 21, exp10 |-> -10], [mant |-> 7, exp10 |-> -4]}

InversionInputs == {1, 10, 101}
FallbackDefault == 1
FallbackInputs == {1, 2}

ShOrderDefault == 8
ShOrderInputs == {6, 8}

(***************************************************************************)
(* Configuration classes: the state after construction with no arguments   *)
(***************************************************************************)
DTB_tracking_config == [imaging_model |-> ""]

\* Dipy_tracking_config declares no curvature trait: the attribute exists
\* only once a handler or a caller has stored it.
Dipy_tracking_config ==
    [imaging_model |-> "", tracking_mode |-> "", SD |-> FALSE,
     sh_order |-> ShOrderDefault,
     has_curvature |-> FALSE, curvature |-> 0]

MRtrix_tracking_config ==
    [tracking_mode |-> "", SD |-> FALSE, curvature |-> CurvatureDefault,
     use_act |-> TRUE, seed_from_gmwmi |-> FALSE,
     crop_at_gmwmi |-> TRUE, backtrack |-> TRUE]

Camino_tracking_config ==
    [tracking_mode |-> "", inversion_index |-> 1,
     fallback_index |-> FallbackDefault,
     trace |-> TraceDefault, units |-> "m^2/s"]

(***************************************************************************)
(* Trait-change handlers                                                   *)
(***************************************************************************)
\* MRtrix_tracking_config._curvature_changed; the assignment it makes is a
\* trait assignment, so the handler runs again when the value changes.
RECURSIVE MRtrix_assign_curvature(_, _)
\* Mutant: the comparison with the epsilon made strict.
MRtrix_curvature_changed_strict(c, new) ==
    IF new < CurvatureEps THEN MRtrix_assign_curvature(c, 0) ELSE c

MRtrix_curvature_changed(c, new) ==
    IF new <= CurvatureEps THEN MRtrix_assign_curvature(c, 0) ELSE c

MRtrix_assign_curvature(c, v) ==
    IF v = c.curvature THEN c
    ELSE MRtrix_curvature_changed([c EXCEPT !.curvature = v], v)

\* Mutant: the two Deterministic branches exchanged.
MRtrix_SD_changed_swapped(c, new) ==
    IF c.tracking_mode = "Deterministic" /\ ~new
      THEN MRtrix_assign_curvature(c, CurvatureDetSD)
    ELSE IF c.tracking_mode = "Deterministic" /\ new
      THEN MRtrix_assign_curvature(c, CurvatureDetTensor)
    ELSE IF c.tracking_mode = "Probabilistic"
      THEN MRtrix_assign_curvature(c, CurvatureProb)
    ELSE c

MRtrix_SD_changed(c, new) ==
    IF c.tracking_mode = "Deterministic" /\ ~new
      THEN MRtrix_assign_curvature(c, CurvatureDetTensor)
    ELSE IF c.tracking_mode = "Deterministic" /\ new
      THEN MRtrix_assign_curvature(c, CurvatureDetSD)
    ELSE IF c.tracking_mode = "Probabilistic"
      THEN MRtrix_assign_curvature(c, CurvatureProb)
    ELSE c

MRtrix_tracking_mode_changed(c, new) ==
    IF new = "Deterministic" /\ ~c.SD
      THEN MRtrix_assign_curvature(c, CurvatureDetTensor)
    ELSE IF new = "Deterministic" /\ c.SD
      THEN MRtrix_assign_curvature(c, CurvatureDetSD)
    ELSE IF new = "Probabilistic"
      THEN MRtrix_assign_curvature(c, CurvatureProb)
    ELSE c

\* crop_at_gmwmi, seed_from_gmwmi and backtrack have no handler of their own.
MRtrix_use_act_changed(c, new) ==
    IF new = FALSE
      THEN [c EXCEPT !.crop_at_gmwmi = FALSE,
                     !.seed_from_gmwmi = FALSE,
                     !.backtrack = FALSE]
    ELSE c

\* curvature is an undeclared attribute of Dipy_tracking_config: storing it
\* notifies nobody, so Dipy's _curvature_changed never runs.
Dipy_store_curvature(c, v) ==
    [c EXCEPT !.has_curvature = TRUE, !.curvature = v]

Dipy_SD_changed(c, new) ==
    IF c.tracking_mode = "Deterministic" /\ ~new
      THEN Dipy_store_curvature(c, CurvatureDetTensor)
    ELSE IF c.tracking_mode = "Deterministic" /\ new
      THEN Dipy_store_curvature(c, CurvatureDetSD)
    ELSE IF c.tracking_mode = "Probabilistic"
      THEN Dipy_store_curvature(c, CurvatureProb)
    ELSE c

Dipy_tracking_mode_changed(c, new) ==
    IF new = "Deterministic" /\ ~c.SD
      THEN Dipy_store_curvature(c, CurvatureDetTensor)
    ELSE IF new = "Deterministic" /\ c.SD
      THEN Dipy_store_curvature(c, CurvatureDetSD)
    ELSE IF new = "Probabilistic"
      THEN Dipy_store_curvature(c, CurvatureProb)
    ELSE c

\* Mutant: the way back to m^2/s rescales in the same direction.
Camino_units_changed_no_inverse(c, new) ==
    IF new = "s/mm^2"
      THEN [c EXCEPT !.trace.exp10 = @ + UnitsRescaleExp]
    ELSE IF new = "m^2/s"
      THEN [c EXCEPT !.trace.exp10 = @ + UnitsRescaleExp]
    ELSE c

Camino_units_changed(c, new) ==
    IF new = "s/mm^2"
      THEN [c EXCEPT !.trace.exp10 = @ + UnitsRescaleExp]
    ELSE IF new = "m^2/s"
      THEN [c EXCEPT !.trace.exp10 = @ - UnitsRescaleExp]
    ELSE c

(***************************************************************************)
(* Workflow graphs (nipype pe.Workflow)                                    *)
(***************************************************************************)
\* pe.Node(interface=..., name=...)
Node(name, interface) ==
    [name |-> name, interface |-> interface, iterfield |-> {}]

\* pe.MapNode(interface=..., iterfield=[...], name=...)
MapNode(name, interface, iterfield) ==
    [name |-> name, interface |-> interface, iterfield |-> iterfield]

\* One entry of a flow.connect list: (src, dst, [(srcport, dstport)])
Edge(src, srcport, dst, dstport) ==
    [src |-> src, srcport |-> srcport, dst |-> dst, dstport |-> dstport]

\* pe.Workflow(name="tracking"): no node, no connection.  inputs holds the
\* values assigned to node.inputs.<name> of the nodes, as far as they are
\* decided by the configuration fields of this model.
Workflow == [nodes |-> {}, edges |-> {}, inputs |-> {}]

\* flow.connect adds the connections and the nodes they mention; a node
\* that is created but never connected is not part of the workflow.
Connect(f, conns) ==
    [f EXCEPT
       !.nodes = @ \cup {e.src : e \in conns} \cup {e.dst : e \in conns},
       !.edges = @ \cup conns]

\* node.inputs.<name> = value
Input(name, value) == [name |-> name, value |-> value]
SetInputs(f, node, assigned) ==
    [f EXCEPT !.inputs =
       @ \cup {[name |-> a.name, value |-> a.value, node |-> node.name] :
                 a \in assigned}]

\* Every compiler creates the two boundary nodes under these names.
inputnode == Node("inputnode", "IdentityInterface")
outputnode == Node("outputnode", "IdentityInterface")

\* What a compiler hands back: the workflow, or the exception it raised.
Returned(f) == [flow |-> f, raised |-> "none"]
Raised(exc) == [flow |-> Workflow, raised |-> exc]

(***************************************************************************)
(* create_dtb_tracking_flow                                                *)
(***************************************************************************)
DTB_inputnode_fields == {"DWI", "wm_mask_registered"}
DTB_outputnode_fields == {"track_file"}

\* dtb_dtk2dir.inputs.diffusion_type, and dirlist (the 181 directions file
\* of cmtklib) for the two models converted as 'dsi'
DTB_dtk2dir_inputs(config) ==
    IF config.imaging_model = "DTI"
      THEN {Input("diffusion_type", "dti")}
      ELSE {Input("diffusion_type", "dsi"), Input("dirlist", "181_vecs.dat")}

\* prefix is bound only under one of the three imaging models; the connect
\* list reads it.
create_dtb_tracking_flow(config) ==
    IF config.imaging_model \notin {"DSI", "DTI", "HARDI"}
      THEN Raised("UnboundLocalError")
    ELSE
      LET dtb_dtk2dir == Node("dtb_dtk2dir", "DTB_dtk2dir")
          fs_mriconvert == Node("fs_mriconvert", "MRIConvert")
          streamline_filter == Node("dtb_streamline", "StreamlineAndFilter")
      IN Returned(SetInputs(Connect(Workflow,
           {Edge(inputnode, "DWI", dtb_dtk2dir, "prefix"),
            Edge(inputnode, "wm_mask_registered", fs_mriconvert, "in_file"),
            Edge(dtb_dtk2dir, "out_file", streamline_filter, "dir_file"),
            Edge(fs_mriconvert, "out_file", streamline_filter, "wm_mask"),
            Edge(streamline_filter, "out_file", outputnode, "track_file")}),
           dtb_dtk2dir, DTB_dtk2dir_inputs(config)))

(***************************************************************************)
(* create_dipy_tracking_flow                                               *)
(***************************************************************************)
Dipy_inputnode_fields ==
    {"DWI", "fod_file", "FA", "T1", "partial_volumes", "wm_mask_resampled",
     "gm_registered", "bvals", "bvecs", "model"}
Dipy_outputnode_fields == {"track_file"}

\* "If tensor fitting was used"
Dipy_tensor_path(config) ==
    ~config.SD /\ config.imaging_model # "DSI"

\* Mutant: the seed connection that the source keeps commented out.
Dipy_tensor_connections_seeded(dipy_tracking) ==
    {Edge(Node("dipy_seeds", "make_seeds"), "seed_files",
          dipy_tracking, "seed_file"),
     Edge(inputnode, "wm_mask_resampled", dipy_tracking, "seed_mask"),
     Edge(inputnode, "DWI", dipy_tracking, "in_file"),
     Edge(inputnode, "model", dipy_tracking, "in_model"),
     Edge(inputnode, "FA", dipy_tracking, "in_fa"),
     Edge(inputnode, "wm_mask_resampled", dipy_tracking, "tracking_mask"),
     Edge(dipy_tracking, "tracks", outputnode, "track_file")}

Dipy_tensor_connections(dipy_tracking) ==
    {Edge(inputnode, "wm_mask_resampled", dipy_tracking, "seed_mask"),
     Edge(inputnode, "DWI", dipy_tracking, "in_file"),
     Edge(inputnode, "model", dipy_tracking, "in_model"),
     Edge(inputnode, "FA", dipy_tracking, "in_fa"),
     Edge(inputnode, "wm_mask_resampled", dipy_tracking, "tracking_mask"),
     Edge(dipy_tracking, "tracks", outputnode, "track_file")}

\* The Deterministic and the Probabilistic branch make the same connections
\* around a tracking node of a different name.
Dipy_csd_flow(config, dipy_tracking) ==
    LET dipy_seeds == Node("dipy_seeds", "make_seeds")
        f1 == Connect(Workflow,
                {Edge(inputnode, "wm_mask_resampled", dipy_seeds, "WM_file"),
                 Edge(inputnode, "gm_registered", dipy_seeds, "ROI_files")})
        f2 == IF config.imaging_model = "DSI"
                THEN Connect(f1,
                       {Edge(inputnode, "fod_file", dipy_tracking, "fod_file")})
                ELSE f1
    IN Connect(f2,
         {Edge(inputnode, "wm_mask_resampled", dipy_tracking, "seed_mask"),
          Edge(inputnode, "DWI", dipy_tracking, "in_file"),
          Edge(inputnode, "partial_volumes", dipy_tracking,
               "in_partial_volume_files"),
          Edge(inputnode, "model", dipy_tracking, "in_model"),
          Edge(inputnode, "FA", dipy_tracking, "in_fa"),
          Edge(inputnode, "wm_mask_resampled", dipy_tracking, "tracking_mask"),
          Edge(dipy_tracking, "tracks", outputnode, "track_file")})

\* Mutant: recon_order left unset, as for SHORE.
Dipy_csd_inputs_no_order(config, algo) ==
    {Input("algo", algo)} \cup
    (IF config.imaging_model = "DSI"
       THEN {Input("recon_model", "SHORE")}
       ELSE {Input("recon_model", "CSD")})

\* dipy_tracking.inputs.algo, .recon_model and .recon_order of a branch
Dipy_csd_inputs(config, algo) ==
    {Input("algo", algo)} \cup
    (IF config.imaging_model = "DSI"
       THEN {Input("recon_model", "SHORE")}
       ELSE {Input("recon_model", "CSD"),
             Input("recon_order", config.sh_order)})

create_dipy_tracking_flow(config) ==
       IF Dipy_tensor_path(config)
         THEN Returned(Connect(Workflow,
                Dipy_tensor_connections(
                  Node("dipy_dtieudx_tracking",
                       "TensorInformedEudXTractography"))))
       ELSE IF config.tracking_mode = "Deterministic"
         THEN LET dipy_tracking == Node("dipy_deterministic_tracking",
                                        "DirectionGetterTractography")
              IN Returned(SetInputs(Dipy_csd_flow(config, dipy_tracking),
                            dipy_tracking,
                            Dipy_csd_inputs(config, "deterministic")))
       ELSE IF config.tracking_mode = "Probabilistic"
         THEN LET dipy_tracking == Node("dipy_probabilistic_tracking",
                                        "DirectionGetterTractography")
              IN Returned(SetInputs(Dipy_csd_flow(config, dipy_tracking),
                            dipy_tracking,
                            Dipy_csd_inputs(config, "probabilistic")))
       ELSE Returned(Workflow)

(***************************************************************************)
(* create_mrtrix_tracking_flow                                             *)
(***************************************************************************)
MRtrix_inputnode_fields ==
    {"DWI", "wm_mask_resampled", "gm_registered", "act_5tt_registered",
     "gmwmi_registered", "grad"}
MRtrix_outputnode_fields == {"track_file"}

\* "Compute single fiber voxel mask": connected before the mode is read
MRtrix_erode_flow ==
    Connect(Workflow,
      {Edge(inputnode, "wm_mask_resampled",
            Node("wm_erode", "Erode"), "in_file")})

\* if config.use_act: ... else: ...
MRtrix_act_connections(config, mrtrix_tracking) ==
    IF config.use_act
      THEN {Edge(inputnode, "act_5tt_registered", mrtrix_tracking, "act_file")}
      ELSE {Edge(inputnode, "wm_mask_resampled", mrtrix_tracking, "mask_file")}

\* if config.seed_from_gmwmi: ... else: ...
MRtrix_seed_connections(config, mrtrix_tracking) ==
    IF config.seed_from_gmwmi
      THEN {Edge(inputnode, "gmwmi_registered", mrtrix_tracking, "seed_gmwmi")}
      ELSE {Edge(inputnode, "wm_mask_resampled", mrtrix_tracking, "seed_file")}

MRtrix_seeds_connections(mrtrix_seeds) ==
    {Edge(inputnode, "wm_mask_resampled", mrtrix_seeds, "WM_file"),
     Edge(inputnode, "gm_registered", mrtrix_seeds, "ROI_files")}

MRtrix_converter_connections(mrtrix_tracking, converter) ==
    {Edge(inputnode, "DWI", mrtrix_tracking, "in_file"),
     Edge(mrtrix_tracking, "tracked", converter, "in_tracks"),
     Edge(inputnode, "wm_mask_resampled", converter, "in_image"),
     Edge(converter, "out_tracks", outputnode, "track_file")}

\* Mutant: the two flags are crossed on their way to the tracking stage.
MRtrix_act_inputs_crossed(config) ==
    IF config.use_act
      THEN {Input("backtrack", config.crop_at_gmwmi),
            Input("crop_at_gmwmi", config.backtrack)}
      ELSE {}

\* Mutant: the two flags are passed on whatever use_act is.
MRtrix_act_inputs_unguarded(config) ==
    {Input("backtrack", config.backtrack),
     Input("crop_at_gmwmi", config.crop_at_gmwmi)}

\* mrtrix_tracking.inputs.backtrack and .crop_at_gmwmi, set under use_act
MRtrix_act_inputs(config) ==
    IF config.use_act
      THEN {Input("backtrack", config.backtrack),
            Input("crop_at_gmwmi", config.crop_at_gmwmi)}
      ELSE {}

\* Mutant: rk4 is set for every curvature.
MRtrix_deterministic_inputs_rk4(config) ==
    {Input("rk4", TRUE), Input("inputmodel", "SD_Stream")}

\* rk4 and inputmodel of the Deterministic branch
MRtrix_deterministic_inputs(config) ==
    (IF config.curvature >= CurvatureEps THEN {Input("rk4", TRUE)} ELSE {})
    \cup {Input("inputmodel", "SD_Stream")}

\* inputmodel of the Probabilistic branch; rk4 is commented out there
MRtrix_probabilistic_inputs(config) ==
    IF config.SD THEN {Input("inputmodel", "iFOD2")}
    ELSE {Input("inputmodel", "Tensor_Prob")}

\* The orient_matcher node of this branch is created and never connected.
MRtrix_deterministic_flow(config) ==
    LET mrtrix_seeds == Node("mrtrix_seeds", "make_mrtrix_seeds")
        mrtrix_tracking ==
            Node("mrtrix_deterministic_tracking", "StreamlineTrack")
        voxel2WorldMatrixExtracter ==
            Node("voxel2WorldMatrixExtracter", "extractHeaderVoxel2WorldMatrix")
        converter == Node("trackvis", "Tck2Trk")
        f1 == Connect(MRtrix_erode_flow,
                {Edge(inputnode, "grad", mrtrix_tracking,
                      "gradient_encoding_file")})
        f2 == Connect(f1,
                {Edge(inputnode, "wm_mask_resampled",
                      voxel2WorldMatrixExtracter, "in_file")})
        f3 == Connect(f2, MRtrix_seeds_connections(mrtrix_seeds))
        f4 == Connect(f3, MRtrix_act_connections(config, mrtrix_tracking))
        f5 == Connect(f4, MRtrix_seed_connections(config, mrtrix_tracking))
        f6 == Connect(f5,
                MRtrix_converter_connections(mrtrix_tracking, converter))
    IN SetInputs(f6, mrtrix_tracking,
         MRtrix_deterministic_inputs(config) \cup MRtrix_act_inputs(config))

MRtrix_probabilistic_flow(config) ==
    LET mrtrix_seeds == Node("mrtrix_seeds", "make_mrtrix_seeds")
        mrtrix_tracking ==
            Node("mrtrix_probabilistic_tracking", "StreamlineTrack")
        converter == Node("trackvis", "Tck2Trk")
        f1 == Connect(MRtrix_erode_flow, MRtrix_seeds_connections(mrtrix_seeds))
        f2 == Connect(f1, MRtrix_act_connections(config, mrtrix_tracking))
        f3 == Connect(f2, MRtrix_seed_connections(config, mrtrix_tracking))
        f4 == Connect(f3,
                MRtrix_converter_connections(mrtrix_tracking, converter))
    IN SetInputs(f4, mrtrix_tracking,
         MRtrix_probabilistic_inputs(config) \cup MRtrix_act_inputs(config))

\* No branch rejects a configuration, and a tracking_mode that is neither
\* of the two leaves the workflow with the erosion node alone.
create_mrtrix_tracking_flow(config) ==
    IF config.tracking_mode = "Deterministic"
      THEN Returned(MRtrix_deterministic_flow(config))
    ELSE IF config.tracking_mode = "Probabilistic"
      THEN Returned(MRtrix_probabilistic_flow(config))
    ELSE Returned(MRtrix_erode_flow)

(***************************************************************************)
(* create_camino_tracking_flow                                             *)
(***************************************************************************)
Camino_inputnode_fields ==
    {"DWI", "wm_mask_resampled", "gm_registered", "grad"}
Camino_outputnode_fields == {"track_file"}
CaminoMultitensorIndex == 10
CaminoThreeTensorIndex == 100
CrossAngleDefault == 20

\* The inputs of the deterministic camino_tracking node that inversion_index
\* decides: inputmodel is assigned config.tracking_model ('dt', the value
\* the configuration class gives it) and overwritten with 'multitensor'
\* from index 10 on; maxcomponents is set above index 100.
Camino_track_inputs(config) ==
    (IF config.inversion_index >= CaminoMultitensorIndex
       THEN {Input("inputmodel", "multitensor")}
       ELSE {Input("inputmodel", "dt")})
    \cup
    (IF config.inversion_index > CaminoThreeTensorIndex
       THEN {Input("maxcomponents", 3)} ELSE {})

Camino_deterministic_flow(config) ==
    LET camino_tracking == Node("camino_tracking", "Track")
        converter == Node("trackvis", "Camino2Trackvis")
    IN SetInputs(Connect(Workflow,
         {Edge(inputnode, "DWI", camino_tracking, "in_file"),
          Edge(inputnode, "wm_mask_resampled", camino_tracking, "seed_file"),
          Edge(inputnode, "wm_mask_resampled", camino_tracking, "anisfile"),
          Edge(camino_tracking, "tracked", converter, "in_file"),
          Edge(inputnode, "wm_mask_resampled", converter, "nifti_file"),
          Edge(converter, "trackvis", outputnode, "track_file")}),
         camino_tracking, Camino_track_inputs(config))

\* camino_tracking.inputs.numpds of the probabilistic branch, where
\* inputmodel stays at config.tracking_model ('dt')
Camino_numpds(config) ==
    IF /\ config.inversion_index >= CaminoMultitensorIndex
       /\ config.inversion_index < CaminoThreeTensorIndex
      THEN Input("numpds", 2)
      ELSE Input("numpds", 3)

\* Mutant: the PDF stage always reads a single-tensor model.
Camino_picopdf_inputmodel_dt(config) == Input("inputmodel", "dt")

\* picopdf.inputs.inputmodel
Camino_picopdf_inputmodel(config) ==
    IF config.inversion_index >= CaminoMultitensorIndex
      THEN Input("inputmodel", "multitensor")
      ELSE Input("inputmodel", "dt")

Camino_probabilistic_flow(config) ==
    LET camino_seeds == Node("camino_seeds", "make_seeds")
        dtlutgen == Node("dtlutgen", "DTLUTGen")
        dtlutgen2 == Node("dtlutgen2", "DTLUTGen")
        picopdf == Node("picopdf", "PicoPDFs")
        merge == Node("merge_LUTs", "Merge")
        camino_tracking ==
            MapNode("camino_tracking", "TrackPICo", {"seed_file"})
        converter == MapNode("trackvis", "Camino2Trackvis", {"in_file"})
        f1 == Connect(Workflow,
                {Edge(inputnode, "grad", dtlutgen, "scheme_file")})
        f2 == IF config.inversion_index >= CaminoMultitensorIndex
                THEN Connect(f1,
                       {Edge(inputnode, "grad", dtlutgen2, "scheme_file")})
                ELSE f1
        f3 == IF config.inversion_index >= CaminoMultitensorIndex
                THEN Connect(f2,
                       {Edge(dtlutgen2, "dtLUT", merge, "in1"),
                        Edge(dtlutgen, "dtLUT", merge, "in2"),
                        Edge(merge, "out", picopdf, "luts")})
                ELSE Connect(f2, {Edge(dtlutgen, "dtLUT", picopdf, "luts")})
        f4 == Connect(f3,
         {Edge(inputnode, "wm_mask_resampled", camino_seeds, "WM_file"),
          Edge(inputnode, "gm_registered", camino_seeds, "ROI_files"),
          Edge(inputnode, "DWI", picopdf, "in_file"),
          Edge(picopdf, "pdfs", camino_tracking, "in_file"),
          Edge(camino_seeds, "seed_files", camino_tracking, "seed_file"),
          Edge(inputnode, "wm_mask_resampled", camino_tracking, "anisfile"),
          Edge(camino_tracking, "tracked", converter, "in_file"),
          Edge(inputnode, "wm_mask_resampled", converter, "nifti_file"),
          Edge(converter, "trackvis", outputnode, "track_file")})
        f5 == SetInputs(f4, dtlutgen,
                {Input("inversion", config.inversion_index),
                 Input("trace", config.trace)}
                \cup (IF config.inversion_index >= CaminoMultitensorIndex
                        THEN {Input("cross", CrossAngleDefault)} ELSE {}))
        f6 == IF config.inversion_index >= CaminoMultitensorIndex
                THEN SetInputs(f5, dtlutgen2,
                       {Input("inversion", config.fallback_index),
                        Input("trace", config.trace)})
                ELSE f5
        f7 == SetInputs(f6, picopdf, {Camino_picopdf_inputmodel(config)})
    IN SetInputs(f7, camino_tracking,
         {Input("inputmodel", "dt"), Camino_numpds(config)})

create_camino_tracking_flow(config) ==
    IF config.tracking_mode = "Deterministic"
      THEN Returned(Camino_deterministic_flow(config))
    ELSE IF config.tracking_mode = "Probabilistic"
      THEN Returned(Camino_probabilistic_flow(config))
    ELSE Returned(Workflow)

(***************************************************************************)
(* create_fsl_tracking_flow, create_gibbs_tracking_flow                    *)
(***************************************************************************)
FSL_inputnode_fields ==
    {"phsamples", "fsamples", "thsamples", "wm_mask_resampled",
     "gm_registered"}
FSL_outputnode_fields == {"targets"}

create_fsl_tracking_flow ==
    LET fsl_seeds == Node("fsl_seeds", "make_seeds")
        probtrackx == MapNode("probtrackx", "mapped_ProbTrackX", {"seed"})
    IN Returned(Connect(Workflow,
         {Edge(inputnode, "wm_mask_resampled", fsl_seeds, "WM_file"),
          Edge(inputnode, "gm_registered", fsl_seeds, "ROI_files"),
          Edge(fsl_seeds, "seed_files", probtrackx, "seed"),
          Edge(fsl_seeds, "seed_files", probtrackx, "target_masks"),
          Edge(inputnode, "wm_mask_resampled", probtrackx, "mask"),
          Edge(inputnode, "fsamples", probtrackx, "fsamples"),
          Edge(inputnode, "phsamples", probtrackx, "phsamples"),
          Edge(inputnode, "thsamples", probtrackx, "thsamples"),
          Edge(probtrackx, "matrix", outputnode, "targets")}))

Gibbs_inputnode_fields == {"recon_file", "wm_mask_resampled"}
Gibbs_outputnode_fields == {"track_file", "param_file"}

\* Mutant: the tool's bundle goes to outputnode uncorrected as well.
create_gibbs_tracking_flow_bypass ==
    LET gibbs == Node("gibbs_tracking", "gibbs_tracking")
        match_orient == Node("match_orientations", "match_orientations")
    IN Returned(Connect(Workflow,
         {Edge(inputnode, "recon_file", gibbs, "in_file"),
          Edge(inputnode, "wm_mask_resampled", gibbs, "mask"),
          Edge(gibbs, "out_file", match_orient, "trackvis_file"),
          Edge(inputnode, "wm_mask_resampled", match_orient, "ref_image_file"),
          Edge(match_orient, "out_file", outputnode, "track_file"),
          Edge(gibbs, "out_file", outputnode, "track_file"),
          Edge(gibbs, "param_file", outputnode, "param_file")}))

create_gibbs_tracking_flow ==
    LET gibbs == Node("gibbs_tracking", "gibbs_tracking")
        match_orient == Node("match_orientations", "match_orientations")
    IN Returned(Connect(Workflow,
         {Edge(inputnode, "recon_file", gibbs, "in_file"),
          Edge(inputnode, "wm_mask_resampled", gibbs, "mask"),
          Edge(gibbs, "out_file", match_orient, "trackvis_file"),
          Edge(inputnode, "wm_mask_resampled", match_orient, "ref_image_file"),
          Edge(match_orient, "out_file", outputnode, "track_file"),
          Edge(gibbs, "param_file", outputnode, "param_file")}))

\* The IdentityInterface fields each compiler declares on its boundary nodes
InputnodeFields(b) ==
    CASE b = "DTB" -> DTB_inputnode_fields
      [] b = "Dipy" -> Dipy_inputnode_fields
      [] b = "MRtrix" -> MRtrix_inputnode_fields
      [] b = "Camino" -> Camino_inputnode_fields
      [] b = "FSL" -> FSL_inputnode_fields
      [] b = "Gibbs" -> Gibbs_inputnode_fields

OutputnodeFields(b) ==
    CASE b = "DTB" -> DTB_outputnode_fields
      [] b = "Dipy" -> Dipy_outputnode_fields
      [] b = "MRtrix" -> MRtrix_outputnode_fields
      [] b = "Camino" -> Camino_outputnode_fields
      [] b = "FSL" -> FSL_outputnode_fields
      [] b = "Gibbs" -> Gibbs_outputnode_fields

(***************************************************************************)
(* Seed-mask interfaces make_seeds and make_mrtrix_seeds                   *)
(*                                                                         *)
(* A volume is its affine and its data array, flattened to one axis; the   *)
(* length of the array is its shape.  A path is kept as its directory, its *)
(* base name and its extension, as split_filename takes it apart.          *)
(***************************************************************************)
NVox == 2
MaxLabel == 2
MaxWM == 2
Affines == {"I", "S"}

\* nib.load(file): get_affine() and get_data()
Volume(affine, data) == [affine |-> affine, data |-> data]
VolumeData(max) == UNION {[1..n -> 0..max] : n \in 1..NVox}

ROIFile(dir, base, vol) ==
    [dir |-> dir, base |-> base, vol |-> vol, ext |-> ".nii.gz"]
WMFile(vol) == [dir |-> "a", base |-> "wm", vol |-> vol, ext |-> ".nii.gz"]

\* The ROI_files lists: one region volume, or two region volumes of one
\* shape whose paths differ in the directory only or in the base name; the
\* second volume is a copy of the first or carries one value throughout.
ROIFileLists ==
    {<<ROIFile("a", "roi", Volume("I", d))>> : d \in VolumeData(MaxLabel)}
    \cup
    UNION {{<<ROIFile("a", "roi", Volume("I", d1)),
              ROIFile(n.dir, n.base, Volume("I", d2))>> :
              d2 \in {d1} \cup {[k \in DOMAIN d1 |-> c] : c \in 0..MaxLabel},
              n \in {[dir |-> "b", base |-> "roi"],
                     [dir |-> "a", base |-> "lbl"]}} :
           d1 \in VolumeData(MaxLabel)}

WMFiles == {WMFile(Volume(a, d)) : a \in Affines, d \in VolumeData(MaxWM)}

\* nipype.utils.filemanip.split_filename: (path, base name, extension)
split_filename(file) == <<file.dir, file.base, file.ext>>

\* os.path.abspath(base_name + '_seed_' + str(i) + '.nii.gz')
seed_path(base_name, i) ==
    [dir |-> "cwd", base |-> base_name, ext |-> ".nii.gz",
     suffix |-> "_seed_", label |-> i]

\* os.path.abspath(base_name + '_seeds.nii.gz')
seeds_path(base_name) ==
    [dir |-> "cwd", base |-> base_name, ext |-> ".nii.gz",
     suffix |-> "_seeds"]

\* np.unique: the distinct values of an array, ascending
RECURSIVE SortedValues(_)
SortedValues(S) ==
    IF S = {} THEN <<>>
    ELSE LET m == CHOOSE x \in S : \A y \in S : x <= y
         IN <<m>> \o SortedValues(S \ {m})
np_unique(data) == SortedValues({data[k] : k \in DOMAIN data})

\* ROI_data[ROI_data != 0]
NonZero(data) == SelectSeq(data, LAMBDA x : x # 0)

\* np.multiply with numpy's broadcasting: equal shapes multiply voxel by
\* voxel, a shape of 1 is stretched, any other pair of shapes raises.
np_multiply(a, b) ==
    IF Len(a) = Len(b)
      THEN [raised |-> "none", data |-> [k \in DOMAIN a |-> a[k] * b[k]]]
    ELSE IF Len(a) = 1
      THEN [raised |-> "none", data |-> [k \in DOMAIN b |-> a[1] * b[k]]]
    ELSE IF Len(b) = 1
      THEN [raised |-> "none", data |-> [k \in DOMAIN a |-> a[k] * b[1]]]
    ELSE [raised |-> "ValueError", data |-> <<>>]

\* Mutant: the voxels of the other labels keep their value.
label_mask_kept(border, i) ==
    [k \in DOMAIN border |-> IF border[k] = i THEN 1 ELSE border[k]]

\* temp[border == i] = 1; temp[border != i] = 0
label_mask(border, i) ==
    [k \in DOMAIN border |-> IF border[k] = i THEN 1 ELSE 0]

\* nib.save(nib.Nifti1Image(data, affine), path); n and label record which
\* region volume and which label the file was written for.
SeedWrite(path, affine, data, n, label) ==
    [affine |-> affine, data |-> data, n |-> n, label |-> label,
     path |-> path]

\* The instance before _run_interface: ROI_idx = [], base_name = ''
SeedRun ==
    [raised |-> "none", base_name |-> "", ROI_idx |-> <<>>, writes |-> <<>>]

\* make_seeds._run_interface, one pass of the loop over ROI_files
make_seeds_step(st, n, ROI_file, WM_file) ==
    LET ROI_data == ROI_file.vol.data
        ROI_idx == np_unique(NonZero(ROI_data))
        border == np_multiply(ROI_data, WM_file.vol.data)
        base_name == split_filename(ROI_file)[2]
    IN IF border.raised # "none"
         THEN [st EXCEPT !.ROI_idx = ROI_idx, !.raised = border.raised]
         ELSE [st EXCEPT
                 !.ROI_idx = ROI_idx,
                 !.base_name = base_name,
                 !.writes = @ \o
                    [j \in 1..Len(ROI_idx) |->
                       SeedWrite(seed_path(base_name, ROI_idx[j]),
                                 ROI_file.vol.affine,
                                 label_mask(border.data, ROI_idx[j]),
                                 n, ROI_idx[j])]]

\* Mutant: the overlap is binarised before it is saved.
make_mrtrix_seeds_step_binarised(st, n, ROI_file, WM_file) ==
    LET ROI_data == ROI_file.vol.data
        ROI_idx == np_unique(NonZero(ROI_data))
        border == np_multiply(ROI_data, WM_file.vol.data)
        base_name == split_filename(ROI_file)[2]
    IN IF border.raised # "none"
         THEN [st EXCEPT !.ROI_idx = ROI_idx, !.raised = border.raised]
         ELSE [st EXCEPT
                 !.ROI_idx = ROI_idx,
                 !.base_name = base_name,
                 !.writes = Append(@,
                    SeedWrite(seeds_path(base_name), ROI_file.vol.affine,
                              [k \in DOMAIN border.data |->
                                 IF border.data[k] # 0 THEN 1 ELSE 0],
                              n, 0))]

\* make_mrtrix_seeds._run_interface, one pass of the loop over ROI_files
make_mrtrix_seeds_step(st, n, ROI_file, WM_file) ==
    LET ROI_data == ROI_file.vol.data
        ROI_idx == np_unique(NonZero(ROI_data))
        border == np_multiply(ROI_data, WM_file.vol.data)
        base_name == split_filename(ROI_file)[2]
    IN IF border.raised # "none"
         THEN [st EXCEPT !.ROI_idx = ROI_idx, !.raised = border.raised]
         ELSE [st EXCEPT
                 !.ROI_idx = ROI_idx,
                 !.base_name = base_name,
                 !.writes = Append(@,
                    SeedWrite(seeds_path(base_name), ROI_file.vol.affine,
                              border.data, n, 0))]

\* for ROI_file in self.inputs.ROI_files, left at the first exception
RECURSIVE make_seeds_run(_, _, _, _)
make_seeds_run(st, n, ROI_files, WM_file) ==
    IF n > Len(ROI_files) \/ st.raised # "none" THEN st
    ELSE make_seeds_run(make_seeds_step(st, n, ROI_files[n], WM_file),
                        n + 1, ROI_files, WM_file)

RECURSIVE make_mrtrix_seeds_run(_, _, _, _)
make_mrtrix_seeds_run(st, n, ROI_files, WM_file) ==
    IF n > Len(ROI_files) \/ st.raised # "none" THEN st
    ELSE make_mrtrix_seeds_run(
           make_mrtrix_seeds_step(st, n, ROI_files[n], WM_file),
           n + 1, ROI_files, WM_file)

\* make_seeds.gen_outputfilelist: from the ROI_idx and base_name left by
\* the run
gen_outputfilelist(st) ==
    [j \in 1..Len(st.ROI_idx) |-> seed_path(st.base_name, st.ROI_idx[j])]

\* make_mrtrix_seeds._list_outputs
make_mrtrix_seeds_list_outputs(st) == <<seeds_path(st.base_name)>>

\* An interface with its inputs set and not yet run
SeedInterface(ROI_files, WM_file) ==
    [raised |-> "none", interface |-> "", writes |-> <<>>,
     WM_file |-> WM_file, ROI_files |-> ROI_files, seed_files |-> <<>>]

\* The interface after a run: outputs are listed only when the run returned.
SeedResult(interface, st, outputs) ==
    [seeds EXCEPT !.interface = interface,
                  !.writes = st.writes,
                  !.raised = st.raised,
                  !.seed_files = IF st.raised = "none" THEN outputs ELSE <<>>]

(***************************************************************************)
(* Orientation correction match_orientations                               *)
(*                                                                         *)
(* Lengths are counted in half millimetres and the voxel sizes drawn are   *)
(* even, so that the float division vx/2 of the code is exact.  A          *)
(* streamline is its array of points; the scalars and properties of the    *)
(* input are dropped by the code (None, None) and are left out.            *)
(***************************************************************************)
MaxStreamlines == 2
MaxPoints == 2
SamplePoints == {<<2, -4, 6>>, <<-1, 0, 5>>}
Origins == {<<0, 0, 0>>, <<2, -2, 4>>}
VoxelOrders == {<<"L", "P", "S">>, <<"R", "A", "S">>, <<"L", "A", "S">>}
VoxelSizes == {<<2, 2, 2>>, <<2, 4, 6>>}
Axes == {1, 2, 3}

Streamlines == UNION {[1..n -> SamplePoints] : n \in 1..MaxPoints}
Fibs == UNION {[1..n -> Streamlines] : n \in 0..MaxStreamlines}

\* The fields of a trackvis header the interface reads or writes
TrkHeader(voxel_order, origin, voxel_size) ==
    [voxel_order |-> voxel_order, origin |-> origin,
     voxel_size |-> voxel_size]

\* fib, hdr = nib.trackvis.read(file); the name is split_filename's base
TrackvisFile(name, hdr, fib) == [name |-> name, hdr |-> hdr, fib |-> fib]

\* The reference image: aff2axcodes(affine) and get_vox_dims
RefImage(axcode, voxel_size) == [voxel_size |-> voxel_size, axcode |-> axcode]

\* Mutant: the axis is flipped when the codes agree.
flip_inverted(axcode, voxel_order, i) ==
    IF axcode[i] # voxel_order[i] THEN 1 ELSE -1

\* flip_x, flip_y, flip_z
flip(axcode, voxel_order, i) ==
    IF axcode[i] # voxel_order[i] THEN -1 ELSE 1

\* temp_fib[j], one point of a streamline
match_point(p, hdr, ref) ==
    [i \in Axes |->
       flip(ref.axcode, hdr.voxel_order, i) * (p[i] - hdr.origin[i])
       + ref.voxel_size[i] \div 2]

\* Mutant: the output keeps the voxel_order of the input.
orcor_header_kept_order(hdr, ref) ==
    TrkHeader(hdr.voxel_order, <<0, 0, 0>>, ref.voxel_size)

\* trk_header: origin zero, the voxel size and the axis codes of the
\* reference image
orcor_header(hdr, ref) ==
    TrkHeader(<<ref.axcode[1], ref.axcode[2], ref.axcode[3]>>, <<0, 0, 0>>,
              ref.voxel_size)

\* match_orientations._run_interface: the file written, and the arrays of
\* the input as they are after the run (each is copied before it is
\* rewritten, so they are as read).
match_orientations(file, ref) ==
    [fib |-> file.fib,
     out |-> TrackvisFile(
               file.name \o <<"_orcor">>,
               orcor_header(file.hdr, ref),
               [i \in DOMAIN file.fib |->
                  [j \in DOMAIN file.fib[i] |->
                     match_point(file.fib[i][j], file.hdr, ref)]])]

\* An interface with its trackvis_file set and not yet run.  source is the
\* file the first run read; runs counts the runs made.
OrientInterface(file) ==
    [fib |-> file.fib,
     ref |-> RefImage(file.hdr.voxel_order, file.hdr.voxel_size),
     out |-> file, trackvis_file |-> file, source |-> file, runs |-> 0]

(***************************************************************************)
(* Streamline filtering: CMTK_filterfibers and StreamlineAndFilter         *)
(*                                                                         *)
(* A file name is its directory ("" for a relative name), its base name    *)
(* and its extension; a name built by appending to the base name carries   *)
(* what was appended as its suffix.  The tools an interface calls are      *)
(* kept as the list of the calls made, each with its arguments and the     *)
(* track file it leaves; files is the set of the files the calls wrote.    *)
(***************************************************************************)
FiberCutoffLowerDefault == 20
FiberCutoffUpperDefault == 500
SplineStepDefault == 1

FileName(dir, base, ext) == [dir |-> dir, base |-> base, ext |-> ext]

\* os.path.abspath: a relative name is taken in the working directory
abspath(file) == [file EXCEPT !.dir = IF @ = "" THEN "cwd" ELSE @]

\* A trait left Undefined is the empty tuple, a trait holding v is <<v>>
Undefined == <<>>
isdefined(x) == x # Undefined

\* os.path.abspath(base + '_cutfiltered' + ext)
cutfiltered_path(base, ext) ==
    [dir |-> "cwd", base |-> base, ext |-> ext, suffix |-> "_cutfiltered"]

\* os.path.abspath("lengths.npy")
lengths_path == FileName("cwd", "lengths", ".npy")

\* One call of a tool: its arguments and the track file it leaves
Call(tool, args, out) == [out |-> out, tool |-> tool, args |-> args]

\* What a run of an interface body leaves
Ran_(calls, files, exc) == [raised |-> exc, calls |-> calls, files |-> files]

\* cmtklib.diffusion.filter_fibers(intrk, outtrk, ...) writes the filtered
\* tracks to outtrk, by default to <base of intrk>_cutfiltered<ext> in the
\* working directory, and the lengths to lengths.npy: the two files
\* CMTK_filterfibers declares as the outputs that exist after its run.
filter_fibers(intrk, outtrk, fiber_cutoff_lower, fiber_cutoff_upper) ==
    LET sp == split_filename(intrk)
        out == IF isdefined(outtrk) THEN abspath(outtrk[1])
               ELSE cutfiltered_path(sp[2], sp[3])
    IN Ran_(<<Call("filter_fibers",
                   [intrk |-> intrk, outtrk |-> outtrk,
                    fiber_cutoff_lower |-> fiber_cutoff_lower,
                    fiber_cutoff_upper |-> fiber_cutoff_upper], out)>>,
            {out, lengths_path}, "none")

\* CMTK_filterfibersInputSpec
CMTK_filterfibersInputs(track_file, filtered_track_file, lower, upper) ==
    [fiber_cutoff_lower |-> lower, fiber_cutoff_upper |-> upper,
     track_file |-> track_file, filtered_track_file |-> filtered_track_file]

\* CMTK_filterfibers._run_interface.  With filtered_track_file defined the
\* arguments of the call read self.filtered_track_file, an attribute the
\* interface object does not have: AttributeError, filter_fibers not called.
CMTK_filterfibers_run_interface(inputs) ==
    IF isdefined(inputs.filtered_track_file)
      THEN Ran_(<<>>, {}, "AttributeError")
      ELSE filter_fibers(inputs.track_file, Undefined,
                         inputs.fiber_cutoff_lower, inputs.fiber_cutoff_upper)

\* CMTK_filterfibers._list_outputs
CMTK_filterfibers_list_outputs(inputs) ==
    LET sp == split_filename(inputs.track_file)
    IN [filtered_track_file |->
          IF ~isdefined(inputs.filtered_track_file)
            THEN cutfiltered_path(sp[2], sp[3])
            ELSE abspath(inputs.filtered_track_file[1]),
        lengths_file |-> lengths_path]

\* interface.run(): the body, then the outputs when the body returned
CMTK_filterfibers_run(inputs) ==
    LET r == CMTK_filterfibers_run_interface(inputs)
    IN [raised |-> r.raised,
        outputs |-> IF r.raised = "none"
                      THEN <<CMTK_filterfibers_list_outputs(inputs)>>
                      ELSE <<>>,
        calls |-> r.calls, files |-> r.files]

\* StreamlineAndFilterInputSpect (dir_file and wm_mask are passed on as
\* they are and left out)
StreamlineAndFilterInputs(out_file, angle, spline, step_length, fiberlength) ==
    [out_file |-> out_file, angle |-> angle,
     spline_filter |-> spline, fiberlength_filter |-> fiberlength,
     spline_filter_step_length |-> step_length]

\* DTB_streamline.run(): out_file is os.path.abspath(inputs.out_file)
DTB_streamline_run(inputs) ==
    LET out == abspath(inputs.out_file)
    IN Ran_(<<Call("DTB_streamline",
                   [out_file |-> inputs.out_file, angle |-> inputs.angle],
                   out)>>,
            {out}, "none")

\* dtk.SplineFilter.run(): smoothed_track_file is spline_tracks.trk in the
\* working directory (output_file is left at its default)
SplineFilter_run(track_file, step_length) ==
    LET out == FileName("cwd", "spline_tracks", ".trk")
    IN Ran_(<<Call("SplineFilter",
                   [track_file |-> track_file, step_length |-> step_length],
                   out)>>,
            {out}, "none")

\* StreamlineAndFilter._run_interface
StreamlineAndFilter_run_interface(inputs) ==
    LET res_stream == DTB_streamline_run(inputs)
        raw == res_stream.calls[1].out
        res_splinefilter ==
            IF inputs.spline_filter
              THEN SplineFilter_run(raw, inputs.spline_filter_step_length)
              ELSE Ran_(<<>>, {}, "none")
        out_track_file ==
            IF inputs.spline_filter THEN res_splinefilter.calls[1].out
            ELSE raw
        res_filter ==
            IF inputs.fiberlength_filter
              THEN CMTK_filterfibers_run(
                     CMTK_filterfibersInputs(out_track_file, Undefined,
                       FiberCutoffLowerDefault, FiberCutoffUpperDefault))
              ELSE Ran_(<<>>, {}, "none")
    IN Ran_(res_stream.calls \o res_splinefilter.calls \o res_filter.calls,
            res_stream.files \cup res_splinefilter.files
              \cup res_filter.files,
            res_filter.raised)

\* The base names that begin with "spline", the extensions that end with
\* "trk", among the names drawn
SplineBases == {"spline_tracks"}
TrkExts == {".trk"}

\* fnmatch of a name against the two patterns of _list_outputs
fnmatch(file, pattern) ==
    IF pattern = "*cutfiltered*trk"
      THEN "suffix" \in DOMAIN file /\ file.ext \in TrkExts
      ELSE file.base \in SplineBases /\ file.ext \in TrkExts

\* glob.glob(pattern) in the working directory; the order of the names it
\* returns is the order of the directory listing, so that [0] is any of them
glob(pattern, files) ==
    {f \in files : f.dir = "cwd" /\ fnmatch(f, pattern)}

\* glob.glob(name) of a name without wildcard: the name, if the file exists
glob_name(name, files) == {f \in files : f = abspath(name)}

\* Mutant: the pattern is chosen by spline_filter alone.
StreamlineAndFilter_list_outputs_spline_first(inputs, files) ==
    IF inputs.spline_filter THEN glob("spline*trk", files)
    ELSE IF inputs.fiberlength_filter THEN glob("*cutfiltered*trk", files)
    ELSE glob_name(inputs.out_file, files)

\* StreamlineAndFilter._list_outputs: the values out_file may take, none
\* when glob.glob(out_trk) is empty (IndexError)
StreamlineAndFilter_list_outputs(inputs, files) ==
    IF inputs.fiberlength_filter THEN glob("*cutfiltered*trk", files)
    ELSE IF inputs.spline_filter THEN glob("spline*trk", files)
    ELSE glob_name(inputs.out_file, files)

\* An interface with its inputs set and not yet run
FilterInterface(interface, inputs) ==
    [raised |-> "none", interface |-> interface, inputs |-> inputs,
     outputs |-> <<>>, calls |-> <<>>, files |-> {}, ran |-> FALSE]

(***************************************************************************)
(* Segmentation stage: SegmentationStage.create_workflow                   *)
(***************************************************************************)
SegTools == {"Freesurfer", "Custom segmentation"}

\* SegmentationConfig()
SegmentationConfig ==
    [seg_tool |-> "Freesurfer", use_fsl_brain_mask |-> TRUE,
     use_existing_freesurfer_data |-> FALSE]

\* use_fsl_brain_mask == False: one recon-all pass on the converted T1
Seg_reconall_flow ==
    LET fs_mriconvert == Node("mgz_convert", "MRIConvert")
        rename == Node("copy_orig", "Rename")
        fs_reconall == Node("reconall", "ReconAll")
    IN SetInputs(
         Connect(Workflow,
           {Edge(inputnode, "T1", fs_mriconvert, "in_file"),
            Edge(fs_mriconvert, "out_file", rename, "in_file"),
            Edge(rename, "out_file", fs_reconall, "subject_id"),
            Edge(fs_reconall, "subjects_dir", outputnode, "subjects_dir"),
            Edge(fs_reconall, "subject_id", outputnode, "subject_id")}),
         fs_reconall, {Input("directive", "all")})

\* The connections of the branch use_fsl_brain_mask == True, but for the
\* one into reconall23
Seg_brain_mask_connections(fs_reconall23) ==
    LET fs_mriconvert == Node("mgz_convert", "MRIConvert")
        rename == Node("copy_orig", "Rename")
        fs_autorecon1 == Node("autorecon1", "ReconAll")
        fs_source == Node("fs_source", "FreeSurferSource")
        fs_mriconvert_nu == Node("niigz_convert", "MRIConvert")
        fsl_bet == Node("fsl_bet", "BET")
        fs_mriconvert_brain == Node("fs_mriconvert_bet_brain", "MRIConvert")
        fs_mriconvert_brainmask ==
            Node("fs_mriconvert_bet_brainmask", "MRIConvert")
        copy_brainmask_to_fs ==
            Node("copy_brainmask_to_fs", "copyFileToFreesurfer")
        copy_brainmaskauto_to_fs ==
            Node("copy_brainmaskauto_to_fs", "copyFileToFreesurfer")
    IN {Edge(inputnode, "T1", fs_mriconvert, "in_file"),
        Edge(fs_mriconvert, "out_file", rename, "in_file"),
        Edge(rename, "out_file", fs_autorecon1, "subject_id"),
        Edge(fs_autorecon1, "subjects_dir", fs_source, "subjects_dir"),
        Edge(fs_autorecon1, "subject_id", fs_source, "subject_id"),
        Edge(fs_source, "nu", fs_mriconvert_nu, "in_file"),
        Edge(fs_mriconvert_nu, "out_file", fsl_bet, "in_file"),
        Edge(fsl_bet, "out_file", fs_mriconvert_brain, "in_file"),
        Edge(fsl_bet, "mask_file", fs_mriconvert_brainmask, "in_file"),
        Edge(fs_mriconvert_brainmask, "out_file",
             copy_brainmask_to_fs, "in_file"),
        Edge(fs_mriconvert_brainmask, "out_file",
             copy_brainmaskauto_to_fs, "in_file"),
        Edge(fs_reconall23, "subjects_dir", outputnode, "subjects_dir"),
        Edge(fs_reconall23, "subject_id", outputnode, "subject_id")}

\* The out_file each copy node is given, a path under
\* <freesurfer_subject_id>/mri, and the directives of the two recon-all
\* passes
Seg_brain_mask_inputs(f) ==
    SetInputs(SetInputs(SetInputs(SetInputs(SetInputs(f,
      Node("autorecon1", "ReconAll"), {Input("directive", "autorecon1")}),
      Node("copy_brain_to_fs", "copyFileToFreesurfer"),
        {Input("out_file", "mri/brain.mgz")}),
      Node("copy_brainmask_to_fs", "copyFileToFreesurfer"),
        {Input("out_file", "mri/brainmask.mgz")}),
      Node("copy_brainmaskauto_to_fs", "copyFileToFreesurfer"),
        {Input("out_file", "mri/brainmask.auto.mgz")}),
      Node("reconall23", "ReconAll"), {Input("directive", "autorecon2")})

\* use_fsl_brain_mask == True: reconall23 takes its subject_id from the
\* out_file of copy_brainmask_to_fs, its only connection from upstream
Seg_brain_mask_flow ==
    LET fs_reconall23 == Node("reconall23", "ReconAll")
    IN Seg_brain_mask_inputs(
         Connect(Workflow,
           Seg_brain_mask_connections(fs_reconall23)
             \cup {Edge(Node("copy_brainmask_to_fs", "copyFileToFreesurfer"),
                        "out_file", fs_reconall23, "subject_id")}))

\* SegmentationStage.create_workflow: with existing FreeSurfer data or a
\* custom segmentation only outputnode.inputs is set and nothing connected
Seg_create_workflow(config) ==
    IF config.seg_tool = "Freesurfer"
      THEN IF config.use_existing_freesurfer_data = FALSE
             THEN IF config.use_fsl_brain_mask = FALSE
                    THEN Seg_reconall_flow
                    ELSE Seg_brain_mask_flow
             ELSE SetInputs(SetInputs(Workflow, outputnode,
                    {Input("subjects_dir", "subjects_dir")}),
                    outputnode,
                    {Input("subject_id", "subject_id")})
      ELSE SetInputs(Workflow, outputnode,
             {Input("custom_wm_mask", "white_matter_mask")})

\* The nodes whose output feeds node n
Predecessors(f, n) == {e.src : e \in {x \in f.edges : x.dst = n}}

\* A stage with its configuration set, its workflow not yet built
SegmentationStage(config) ==
    [flow |-> Workflow, config |-> config, built |-> FALSE,
     started |-> {}, done |-> {}]

(***************************************************************************)
(* State machine                                                           *)
(***************************************************************************)
\* The record kept about the last operation: its name, its argument (b, s
\* or n by type), whether a trait assignment changed the value held, and
\* the curvature read before the operation.
Op(op, b, s, n, changed, old_curvature) ==
    [b |-> b, n |-> n, op |-> op, s |-> s, changed |-> changed,
     old_curvature |-> old_curvature]

Constructed ==
    /\ dtb_config = DTB_tracking_config
    /\ dipy_config = Dipy_tracking_config
    /\ mrtrix_config = MRtrix_tracking_config
    /\ camino_config = Camino_tracking_config
    /\ flow = Workflow
    /\ raised = "none"
    /\ last = Op("construct", FALSE, "", 0, FALSE, 0)
    /\ trace_written = FALSE

\* The interfaces with no input of interest set and not run
SeedsIdle == SeedInterface(<<>>, WMFile(Volume("I", <<0>>)))
OrientIdle ==
    OrientInterface(
      TrackvisFile(<<"tracks">>,
        TrkHeader(<<"L", "P", "S">>, <<0, 0, 0>>, <<2, 2, 2>>), <<>>))
FanoutIdle == [runs |-> <<>>, ran |-> FALSE]
SegIdle == SegmentationStage(SegmentationConfig)
FilterIdle ==
    FilterInterface("",
      CMTK_filterfibersInputs(FileName("a", "streamline", ".trk"), Undefined,
        FiberCutoffLowerDefault, FiberCutoffUpperDefault))

Init ==
    /\ backend \in Backends
    /\ Constructed
    /\ seeds = SeedsIdle
    /\ orient = OrientIdle
    /\ fanout = FanoutIdle
    /\ filt = FilterIdle
    /\ seg = SegIdle

\* An assignment returns nothing.
NoResult == flow' = Workflow /\ raised' = "none" /\ UNCHANGED iface_vars

\* --- DTB_tracking_config ---
DTB_set_imaging_model(v) ==
    /\ backend = "DTB"
    /\ dtb_config' = [dtb_config EXCEPT !.imaging_model = v]
    /\ last' = Op("imaging_model", FALSE, v, 0, v # dtb_config.imaging_model, 0)
    /\ NoResult
    /\ UNCHANGED <<backend, dipy_config, mrtrix_config, camino_config,
                   trace_written>>

\* --- Dipy_tracking_config ---
Dipy_set_imaging_model(v) ==
    /\ backend = "Dipy"
    /\ dipy_config' = [dipy_config EXCEPT !.imaging_model = v]
    /\ last' = Op("imaging_model", FALSE, v, 0,
                  v # dipy_config.imaging_model, dipy_config.curvature)
    /\ NoResult
    /\ UNCHANGED <<backend, dtb_config, mrtrix_config, camino_config,
                   trace_written>>

Dipy_set_tracking_mode(v) ==
    /\ backend = "Dipy"
    /\ dipy_config' =
         IF v = dipy_config.tracking_mode THEN dipy_config
         ELSE Dipy_tracking_mode_changed(
                [dipy_config EXCEPT !.tracking_mode = v], v)
    /\ last' = Op("tracking_mode", FALSE, v, 0,
                  v # dipy_config.tracking_mode, dipy_config.curvature)
    /\ NoResult
    /\ UNCHANGED <<backend, dtb_config, mrtrix_config, camino_config,
                   trace_written>>

Dipy_set_SD(v) ==
    /\ backend = "Dipy"
    /\ dipy_config' =
         IF v = dipy_config.SD THEN dipy_config
         ELSE Dipy_SD_changed([dipy_config EXCEPT !.SD = v], v)
    /\ last' = Op("SD", v, "", 0, v # dipy_config.SD, dipy_config.curvature)
    /\ NoResult
    /\ UNCHANGED <<backend, dtb_config, mrtrix_config, camino_config,
                   trace_written>>

Dipy_set_sh_order(v) ==
    /\ backend = "Dipy"
    /\ dipy_config' = [dipy_config EXCEPT !.sh_order = v]
    /\ last' = Op("sh_order", FALSE, "", v, v # dipy_config.sh_order,
                  dipy_config.curvature)
    /\ NoResult
    /\ UNCHANGED <<backend, dtb_config, mrtrix_config, camino_config,
                   trace_written>>

Dipy_set_curvature(v) ==
    /\ backend = "Dipy"
    /\ dipy_config' = Dipy_store_curvature(dipy_config, v)
    /\ last' = Op("curvature", FALSE, "", v,
                  ~dipy_config.has_curvature \/ v # dipy_config.curvature,
                  dipy_config.curvature)
    /\ NoResult
    /\ UNCHANGED <<backend, dtb_config, mrtrix_config, camino_config,
                   trace_written>>

\* --- MRtrix_tracking_config ---
MRtrix_set_tracking_mode(v) ==
    /\ backend = "MRtrix"
    /\ mrtrix_config' =
         IF v = mrtrix_config.tracking_mode THEN mrtrix_config
         ELSE MRtrix_tracking_mode_changed(
                [mrtrix_config EXCEPT !.tracking_mode = v], v)
    /\ last' = Op("tracking_mode", FALSE, v, 0,
                  v # mrtrix_config.tracking_mode, mrtrix_config.curvature)
    /\ NoResult
    /\ UNCHANGED <<backend, dtb_config, dipy_config, camino_config,
                   trace_written>>

MRtrix_set_SD(v) ==
    /\ backend = "MRtrix"
    /\ mrtrix_config' =
         IF v = mrtrix_config.SD THEN mrtrix_config
         ELSE MRtrix_SD_changed([mrtrix_config EXCEPT !.SD = v], v)
    /\ last' = Op("SD", v, "", 0, v # mrtrix_config.SD,
                  mrtrix_config.curvature)
    /\ NoResult
    /\ UNCHANGED <<backend, dtb_config, dipy_config, camino_config,
                   trace_written>>

MRtrix_set_curvature(v) ==
    /\ backend = "MRtrix"
    /\ mrtrix_config' = MRtrix_assign_curvature(mrtrix_config, v)
    /\ last' = Op("curvature", FALSE, "", v, v # mrtrix_config.curvature,
                  mrtrix_config.curvature)
    /\ NoResult
    /\ UNCHANGED <<backend, dtb_config, dipy_config, camino_config,
                   trace_written>>

MRtrix_set_use_act(v) ==
    /\ backend = "MRtrix"
    /\ mrtrix_config' =
         IF v = mrtrix_config.use_act THEN mrtrix_config
         ELSE MRtrix_use_act_changed([mrtrix_config EXCEPT !.use_act = v], v)
    /\ last' = Op("use_act", v, "", 0, v # mrtrix_config.use_act,
                  mrtrix_config.curvature)
    /\ NoResult
    /\ UNCHANGED <<backend, dtb_config, dipy_config, camino_config,
                   trace_written>>

MRtrix_set_crop_at_gmwmi(v) ==
    /\ backend = "MRtrix"
    /\ mrtrix_config' = [mrtrix_config EXCEPT !.crop_at_gmwmi = v]
    /\ last' = Op("crop_at_gmwmi", v, "", 0, v # mrtrix_config.crop_at_gmwmi,
                  mrtrix_config.curvature)
    /\ NoResult
    /\ UNCHANGED <<backend, dtb_config, dipy_config, camino_config,
                   trace_written>>

MRtrix_set_seed_from_gmwmi(v) ==
    /\ backend = "MRtrix"
    /\ mrtrix_config' = [mrtrix_config EXCEPT !.seed_from_gmwmi = v]
    /\ last' = Op("seed_from_gmwmi", v, "", 0,
                  v # mrtrix_config.seed_from_gmwmi, mrtrix_config.curvature)
    /\ NoResult
    /\ UNCHANGED <<backend, dtb_config, dipy_config, camino_config,
                   trace_written>>

MRtrix_set_backtrack(v) ==
    /\ backend = "MRtrix"
    /\ mrtrix_config' = [mrtrix_config EXCEPT !.backtrack = v]
    /\ last' = Op("backtrack", v, "", 0, v # mrtrix_config.backtrack,
                  mrtrix_config.curvature)
    /\ NoResult
    /\ UNCHANGED <<backend, dtb_config, dipy_config, camino_config,
                   trace_written>>

\* --- Camino_tracking_config ---
Camino_set_tracking_mode(v) ==
    /\ backend = "Camino"
    /\ camino_config' = [camino_config EXCEPT !.tracking_mode = v]
    /\ last' = Op("tracking_mode", FALSE, v, 0,
                  v # camino_config.tracking_mode, 0)
    /\ NoResult
    /\ UNCHANGED <<backend, dtb_config, dipy_config, mrtrix_config,
                   trace_written>>

Camino_set_inversion_index(v) ==
    /\ backend = "Camino"
    /\ camino_config' = [camino_config EXCEPT !.inversion_index = v]
    /\ last' = Op("inversion_index", FALSE, "", v,
                  v # camino_config.inversion_index, 0)
    /\ NoResult
    /\ UNCHANGED <<backend, dtb_config, dipy_config, mrtrix_config,
                   trace_written>>

Camino_set_fallback_index(v) ==
    /\ backend = "Camino"
    /\ camino_config' = [camino_config EXCEPT !.fallback_index = v]
    /\ last' = Op("fallback_index", FALSE, "", v,
                  v # camino_config.fallback_index, 0)
    /\ NoResult
    /\ UNCHANGED <<backend, dtb_config, dipy_config, mrtrix_config,
                   trace_written>>

Camino_set_units(v) ==
    /\ backend = "Camino"
    /\ camino_config' =
         IF v = camino_config.units THEN camino_config
         ELSE Camino_units_changed([camino_config EXCEPT !.units = v], v)
    /\ last' = Op("units", FALSE, v, 0, v # camino_config.units, 0)
    /\ NoResult
    /\ UNCHANGED <<backend, dtb_config, dipy_config, mrtrix_config,
                   trace_written>>

Camino_set_trace(v) ==
    /\ backend = "Camino"
    /\ camino_config' = [camino_config EXCEPT !.trace = v]
    /\ trace_written' = TRUE
    /\ last' = Op("trace", FALSE, "", 0, v # camino_config.trace, 0)
    /\ NoResult
    /\ UNCHANGED <<backend, dtb_config, dipy_config, mrtrix_config>>

\* --- the compilers ---
Compile(b, result) ==
    /\ backend = b
    /\ flow' = result.flow
    /\ raised' = result.raised
    /\ last' = Op("compile", FALSE, b, 0, FALSE,
                  IF b = "MRtrix" THEN mrtrix_config.curvature
                  ELSE IF b = "Dipy" THEN dipy_config.curvature ELSE 0)
    /\ UNCHANGED <<backend, dtb_config, dipy_config, mrtrix_config,
                   camino_config, trace_written>>
    /\ UNCHANGED iface_vars

CompileDTB == Compile("DTB", create_dtb_tracking_flow(dtb_config))
CompileDipy == Compile("Dipy", create_dipy_tracking_flow(dipy_config))
CompileMRtrix == Compile("MRtrix", create_mrtrix_tracking_flow(mrtrix_config))
CompileCamino == Compile("Camino", create_camino_tracking_flow(camino_config))
CompileFSL == Compile("FSL", create_fsl_tracking_flow)
CompileGibbs == Compile("Gibbs", create_gibbs_tracking_flow)

Next ==
    \/ \E v \in ImagingModels : DTB_set_imaging_model(v)
    \/ \E v \in ImagingModels : Dipy_set_imaging_model(v)
    \/ \E v \in TrackingModes : Dipy_set_tracking_mode(v)
    \/ \E v \in BOOLEAN : Dipy_set_SD(v)
    \/ \E v \in ShOrderInputs : Dipy_set_sh_order(v)
    \/ \E v \in CurvatureInputs : Dipy_set_curvature(v)
    \/ \E v \in TrackingModes : MRtrix_set_tracking_mode(v)
    \/ \E v \in BOOLEAN : MRtrix_set_SD(v)
    \/ \E v \in CurvatureInputs : MRtrix_set_curvature(v)
    \/ \E v \in BOOLEAN : MRtrix_set_use_act(v)
    \/ \E v \in BOOLEAN : MRtrix_set_crop_at_gmwmi(v)
    \/ \E v \in BOOLEAN : MRtrix_set_seed_from_gmwmi(v)
    \/ \E v \in BOOLEAN : MRtrix_set_backtrack(v)
    \/ \E v \in TrackingModes : Camino_set_tracking_mode(v)
    \/ \E v \in InversionInputs : Camino_set_inversion_index(v)
    \/ \E v \in FallbackInputs : Camino_set_fallback_index(v)
    \/ \E v \in UnitsValues : Camino_set_units(v)
    \/ \E v \in TraceInputs : Camino_set_trace(v)
    \/ CompileDTB
    \/ CompileDipy
    \/ CompileMRtrix
    \/ CompileCamino
    \/ CompileFSL
    \/ CompileGibbs

Spec == Init /\ [][Next]_vars

(***************************************************************************)
(* Runs of the seed-mask interfaces on drawn inputs                        *)
(***************************************************************************)
InitSeeds ==
    /\ backend = "Dipy"
    /\ Constructed
    /\ seeds \in {SeedInterface(r, w) : r \in ROIFileLists, w \in WMFiles}
    /\ orient = OrientIdle
    /\ fanout = FanoutIdle
    /\ filt = FilterIdle
    /\ seg = SegIdle

RunMakeSeeds ==
    /\ seeds.interface = ""
    /\ LET st == make_seeds_run(SeedRun, 1, seeds.ROI_files, seeds.WM_file)
       IN seeds' = SeedResult("make_seeds", st, gen_outputfilelist(st))
    /\ UNCHANGED <<config_vars, orient, fanout, filt, seg>>

RunMakeMrtrixSeeds ==
    /\ seeds.interface = ""
    /\ LET st == make_mrtrix_seeds_run(SeedRun, 1, seeds.ROI_files,
                                       seeds.WM_file)
       IN seeds' = SeedResult("make_mrtrix_seeds", st,
                              make_mrtrix_seeds_list_outputs(st))
    /\ UNCHANGED <<config_vars, orient, fanout, filt, seg>>

\* The ports of node n fed by the port srcport of a stage of the interface
SeedFedPorts(f, n, interface, srcport) ==
    {e.dstport : e \in {x \in f.edges :
                           /\ x.dst = n
                           /\ x.src.interface = interface
                           /\ x.srcport = srcport}}

\* nipype runs a MapNode once for each element of the list on its iterfield
\* ports: invocation k takes element k on an iterfield port and the whole
\* list on any other port.  The files given to a port are kept as a list.
MapNodeRuns(n, ports, files) ==
    IF \E p \in ports : p \in n.iterfield
      THEN [k \in 1..Len(files) |->
              [p \in ports |->
                 IF p \in n.iterfield THEN <<files[k]>> ELSE files]]
      ELSE <<[p \in ports |-> files]>>

\* The probtrackx MapNode of the FSL graph runs on the seed_files that
\* make_seeds reported.
RunProbtrackx ==
    /\ seeds.interface = "make_seeds"
    /\ seeds.raised = "none"
    /\ ~fanout.ran
    /\ LET f == create_fsl_tracking_flow.flow
           n == CHOOSE x \in f.nodes : x.interface = "mapped_ProbTrackX"
       IN fanout' =
            [runs |-> MapNodeRuns(n,
                        SeedFedPorts(f, n, "make_seeds", "seed_files"),
                        seeds.seed_files),
             ran |-> TRUE]
    /\ UNCHANGED <<config_vars, seeds, orient, filt, seg>>

NextSeeds ==
    \/ RunMakeSeeds
    \/ RunMakeMrtrixSeeds
    \/ RunProbtrackx

SpecSeeds == InitSeeds /\ [][NextSeeds]_vars

(***************************************************************************)
(* Runs of match_orientations on drawn inputs                              *)
(***************************************************************************)
InitOrient ==
    /\ backend = "Gibbs"
    /\ Constructed
    /\ seeds = SeedsIdle
    /\ fanout = FanoutIdle
    /\ filt = FilterIdle
    /\ seg = SegIdle
    /\ orient \in
         {OrientInterface(
            TrackvisFile(<<"tracks">>, TrkHeader(o, g, <<2, 2, 2>>), f)) :
            o \in VoxelOrders, g \in Origins, f \in Fibs}

\* A run on the input file against a reference image
RunMatchOrientations(ref) ==
    /\ orient.runs = 0
    /\ LET r == match_orientations(orient.trackvis_file, ref)
       IN orient' = [orient EXCEPT !.ref = ref, !.out = r.out,
                                   !.fib = r.fib, !.runs = 1]
    /\ UNCHANGED <<config_vars, seeds, fanout, filt, seg>>

\* A second run, on the file the first run wrote, against a reference
\* image whose axis codes are the voxel_order of the first input
RunMatchOrientationsBack(voxel_size) ==
    /\ orient.runs = 1
    /\ LET ref == RefImage(orient.source.hdr.voxel_order, voxel_size)
           r == match_orientations(orient.out, ref)
       IN orient' = [orient EXCEPT !.trackvis_file = orient.out,
                                   !.ref = ref, !.out = r.out,
                                   !.fib = r.fib, !.runs = 2]
    /\ UNCHANGED <<config_vars, seeds, fanout, filt, seg>>

NextOrient ==
    \/ \E a \in VoxelOrders, v \in VoxelSizes :
         RunMatchOrientations(RefImage(a, v))
    \/ \E v \in VoxelSizes : RunMatchOrientationsBack(v)

SpecOrient == InitOrient /\ [][NextOrient]_vars

(***************************************************************************)
(* Runs of the streamline-filtering interfaces on drawn inputs             *)
(***************************************************************************)
TrackFileInputs ==
    {FileName("a", "streamline", ".trk"), FileName("b", "fibers", ".trk"),
     FileName("cwd", "spline_tracks", ".trk")}
FilteredFileInputs ==
    {Undefined, <<FileName("", "filtered", ".trk")>>,
     <<FileName("b", "kept", ".trk")>>}
OutFileInputs ==
    {FileName("", "streamline", ".trk"), FileName("b", "fibers", ".trk")}

InitFilter ==
    /\ backend = "DTB"
    /\ Constructed
    /\ seeds = SeedsIdle
    /\ orient = OrientIdle
    /\ fanout = FanoutIdle
    /\ seg = SegIdle
    /\ filt \in
         {FilterInterface("CMTK_filterfibers",
            CMTK_filterfibersInputs(t, f, l, u)) :
            t \in TrackFileInputs, f \in FilteredFileInputs,
            l \in {FiberCutoffLowerDefault, 0},
            u \in {FiberCutoffUpperDefault, 100}}
         \cup
         {FilterInterface("StreamlineAndFilter",
            StreamlineAndFilterInputs(o, a, s, n, c)) :
            o \in OutFileInputs, a \in {45, 60}, s \in BOOLEAN,
            n \in {SplineStepDefault, 2}, c \in BOOLEAN}

\* CMTK_filterfibers(...).run()
RunFilterfibers ==
    /\ filt.interface = "CMTK_filterfibers"
    /\ ~filt.ran
    /\ LET r == CMTK_filterfibers_run(filt.inputs)
       IN filt' = [filt EXCEPT !.raised = r.raised, !.files = r.files,
                               !.calls = r.calls, !.outputs = r.outputs,
                               !.ran = TRUE]
    /\ UNCHANGED <<config_vars, seeds, orient, fanout, seg>>

\* StreamlineAndFilter(...).run(): the body, then _list_outputs, whose
\* out_file is the first name glob returns
RunStreamlineAndFilter ==
    /\ filt.interface = "StreamlineAndFilter"
    /\ ~filt.ran
    /\ LET r == StreamlineAndFilter_run_interface(filt.inputs)
           m == StreamlineAndFilter_list_outputs(filt.inputs, r.files)
       IN IF r.raised # "none" \/ m = {}
            THEN filt' = [filt EXCEPT
                            !.raised = IF r.raised # "none" THEN r.raised
                                       ELSE "IndexError",
                            !.files = r.files, !.calls = r.calls,
                            !.ran = TRUE]
            ELSE \E o \in m :
                   filt' = [filt EXCEPT
                              !.files = r.files, !.calls = r.calls,
                              !.outputs = <<[out_file |-> o]>>,
                              !.ran = TRUE]
    /\ UNCHANGED <<config_vars, seeds, orient, fanout, seg>>

NextFilter ==
    \/ RunFilterfibers
    \/ RunStreamlineAndFilter

SpecFilter == InitFilter /\ [][NextFilter]_vars

(***************************************************************************)
(* Execution of the segmentation workflow by the workflow engine           *)
(***************************************************************************)
InitSeg ==
    /\ backend = "DTB"
    /\ Constructed
    /\ seeds = SeedsIdle
    /\ orient = OrientIdle
    /\ fanout = FanoutIdle
    /\ filt = FilterIdle
    /\ seg \in {SegmentationStage(
                  [seg_tool |-> t, use_fsl_brain_mask |-> m,
                   use_existing_freesurfer_data |-> e]) :
                  t \in SegTools, m \in BOOLEAN, e \in BOOLEAN}

\* stage.create_workflow(flow, inputnode, outputnode)
SegCreateWorkflow ==
    /\ ~seg.built
    /\ seg' = [seg EXCEPT !.flow = Seg_create_workflow(seg.config),
                          !.built = TRUE]
    /\ UNCHANGED <<config_vars, seeds, orient, fanout, filt>>

\* The engine starts a node once every node that feeds it has finished
SegStartNode(n) ==
    /\ seg.built
    /\ n \in seg.flow.nodes
    /\ n \notin seg.started
    /\ Predecessors(seg.flow, n) \subseteq seg.done
    /\ seg' = [seg EXCEPT !.started = @ \cup {n}]
    /\ UNCHANGED <<config_vars, seeds, orient, fanout, filt>>

\* A node that was started finishes
SegFinishNode(n) ==
    /\ n \in seg.started
    /\ n \notin seg.done
    /\ seg' = [seg EXCEPT !.done = @ \cup {n}]
    /\ UNCHANGED <<config_vars, seeds, orient, fanout, filt>>

NextSeg ==
    \/ SegCreateWorkflow
    \/ \E n \in seg.flow.nodes : SegStartNode(n)
    \/ \E n \in seg.flow.nodes : SegFinishNode(n)

SpecSeg == InitSeg /\ [][NextSeg]_vars

(***************************************************************************)
(* Mandatory inputs declared by the interfaces defined in this file        *)
(***************************************************************************)
make_seedsInputSpec_mandatory == {"WM_file"}
extractHeaderVoxel2WorldMatrixInputSpec_mandatory == {"in_file"}
match_orientationInputSpec_mandatory == {"trackvis_file", "ref_image_file"}

\* The traits declared mandatory=True by the input spec of each interface
\* class of this file; make_seeds and make_mrtrix_seeds share
\* make_seedsInputSpec.  The interfaces of other packages are not listed.
MandatoryInputs(interface) ==
    CASE interface \in {"make_seeds", "make_mrtrix_seeds"} ->
           make_seedsInputSpec_mandatory
      [] interface = "extractHeaderVoxel2WorldMatrix" ->
           extractHeaderVoxel2WorldMatrixInputSpec_mandatory
      [] interface = "match_orientations" ->
           match_orientationInputSpec_mandatory
      [] interface = "DTB_dtk2dir" -> {"diffusion_type", "prefix"}
      [] interface \in {"DTB_streamline", "StreamlineAndFilter"} ->
           {"dir_file", "wm_mask", "out_file"}
      [] interface = "CMTK_filterfibers" -> {"track_file"}
      [] interface = "getCRS2XYZtkRegTransform" -> {"in_file", "crs2ras_tkr"}
      [] interface = "transform_trk_CRS2XYZtkReg" ->
           {"trackvis_file", "ref_image_file"}
      [] interface = "gibbs_tracking_CMD" -> {"in_file", "parameter_file"}
      [] interface = "gibbs_tracking" -> {"in_file"}
      [] OTHER -> {}

(***************************************************************************)
(* Vocabulary of the properties                                            *)
(***************************************************************************)
\* Interfaces that run a tractography, and those that generate seed masks
TrackingInterfaces ==
    {"StreamlineAndFilter", "TensorInformedEudXTractography",
     "DirectionGetterTractography", "StreamlineTrack", "Track", "TrackPICo",
     "mapped_ProbTrackX", "gibbs_tracking"}
SeedInterfaces == {"make_seeds", "make_mrtrix_seeds"}

Internal(n) == n # inputnode /\ n # outputnode
TrackingStages(f) == {n \in f.nodes : n.interface \in TrackingInterfaces}
SeedStages(f) == {n \in f.nodes : n.interface \in SeedInterfaces}

\* The port `port` of node n has an incoming edge.
Fed(f, n, port) == \E e \in f.edges : e.dst = n /\ e.dstport = port

\* inputnode's field feeds the port `port` of node n.
FedFromInput(f, field, n, port) ==
    Edge(inputnode, field, n, port) \in f.edges

\* inputnode's field has an outgoing edge to an internal stage.
InputUsed(f, field) ==
    \E e \in f.edges :
        e.src = inputnode /\ e.srcport = field /\ Internal(e.dst)

\* outputnode's field has an incoming edge from an internal stage.
OutputFed(f, field) ==
    \E e \in f.edges :
        e.dst = outputnode /\ e.dstport = field /\ Internal(e.src)

\* The last operation compiled backend b and returned a workflow.
Compiled(b) ==
    last.op = "compile" /\ last.s = b /\ backend = b /\ raised = "none"

\* The curvature the table of dependent defaults gives for a pair
CurvatureTable(mode, sd) ==
    IF mode = "Probabilistic" THEN CurvatureProb
    ELSE IF sd THEN CurvatureDetSD ELSE CurvatureDetTensor

DrivingFieldAssigned == last.op \in {"tracking_mode", "SD"}

\* The nodes reachable from the set S along the edges of f (S included).
RECURSIVE Reachable(_, _)
Reachable(f, S) ==
    LET T == S \cup {e.dst : e \in {x \in f.edges : x.src \in S}}
    IN IF T = S THEN S ELSE Reachable(f, T)

\* There is a directed path of at least one edge from node a to node b.
Upstream(f, a, b) ==
    b \in Reachable(f, {e.dst : e \in {x \in f.edges : x.src = a}})

\* The parameter `name` of node n was assigned, and assigned `value`.
HasInput(f, n, name, value) ==
    /\ \E i \in f.inputs : i.node = n.name /\ i.name = name
    /\ \A i \in f.inputs :
         (i.node = n.name /\ i.name = name) => i.value = value

\* The Dipy configuration takes the CSD path in one of its two modes.
DipyCsdPath ==
    /\ dipy_config.SD \/ dipy_config.imaging_model = "DSI"
    /\ dipy_config.tracking_mode \in {"Deterministic", "Probabilistic"}

MRtrixTracked ==
    mrtrix_config.tracking_mode \in {"Deterministic", "Probabilistic"}

MRtrixSeedPorts == {"seed_file", "seed_gmwmi"}

(***************************************************************************)
(* C1..C10                                                                 *)
(***************************************************************************)

\* C1: in every reachable state of MRtrix_tracking_config, use_act = false
\* implies crop_at_gmwmi = false, seed_from_gmwmi = false and backtrack =
\* false.  The three flags are plain traits: the code lets a caller switch
\* one on while use_act is false, so this is violated.
C1_NoDependentFlagWithoutAct ==
    ~mrtrix_config.use_act =>
        /\ ~mrtrix_config.crop_at_gmwmi
        /\ ~mrtrix_config.seed_from_gmwmi
        /\ ~mrtrix_config.backtrack

\* C2: immediately after every assignment of false to use_act, whatever the
\* state before, the three dependent flags read false.  The handler runs
\* only when use_act changes, so this is violated when use_act was false
\* already and a flag had been switched on.
C2_FlagsOffAfterActOff ==
    (backend = "MRtrix" /\ last.op = "use_act" /\ last.b = FALSE) =>
        /\ ~mrtrix_config.crop_at_gmwmi
        /\ ~mrtrix_config.seed_from_gmwmi
        /\ ~mrtrix_config.backtrack

\* C3 as stated: immediately after every assignment to tracking_mode or SD,
\* curvature equals the table value of the resulting (tracking_mode, SD)
\* pair.  Violated by an assignment of the value already held.
C3_TableAfterEveryAssignment ==
    /\ (backend = "MRtrix" /\ DrivingFieldAssigned
        /\ mrtrix_config.tracking_mode \in {"Deterministic", "Probabilistic"})
       => mrtrix_config.curvature =
            CurvatureTable(mrtrix_config.tracking_mode, mrtrix_config.SD)
    /\ (backend = "Dipy" /\ DrivingFieldAssigned
        /\ dipy_config.tracking_mode \in {"Deterministic", "Probabilistic"})
       => /\ dipy_config.has_curvature
          /\ dipy_config.curvature =
               CurvatureTable(dipy_config.tracking_mode, dipy_config.SD)

\* C3 amended: immediately after every assignment that changes the value of
\* tracking_mode or SD, whatever the curvature before (a caller's own value
\* included), curvature equals the table value of the resulting pair: 2.0
\* for (Deterministic, SD false), 0.0 for (Deterministic, SD true), 1.0 for
\* Probabilistic.
C3_TableAfterChange ==
    /\ (backend = "MRtrix" /\ DrivingFieldAssigned /\ last.changed
        /\ mrtrix_config.tracking_mode \in {"Deterministic", "Probabilistic"})
       => mrtrix_config.curvature =
            CurvatureTable(mrtrix_config.tracking_mode, mrtrix_config.SD)
    /\ (backend = "Dipy" /\ DrivingFieldAssigned /\ last.changed
        /\ dipy_config.tracking_mode \in {"Deterministic", "Probabilistic"})
       => /\ dipy_config.has_curvature
          /\ dipy_config.curvature =
               CurvatureTable(dipy_config.tracking_mode, dipy_config.SD)

\* C3 witness: SD was switched on in Deterministic mode while curvature held
\* a caller's 3.0, and curvature reads 0.0.
C3_Witness ==
    /\ backend = "MRtrix"
    /\ last.op = "SD" /\ last.changed /\ last.b = TRUE
    /\ last.old_curvature = 30000000
    /\ mrtrix_config.tracking_mode = "Deterministic"
    /\ mrtrix_config.curvature = CurvatureDetSD

\* C4: in every reachable state of MRtrix_tracking_config curvature is 0.0
\* or strictly greater than 1e-6; a direct assignment of v <= 1e-6 reads
\* back 0.0 and one of v > 1e-6 reads back v; and curvature keeps its value
\* in every step that neither assigns it nor changes tracking_mode or SD.
C4_CurvatureSnapped ==
    /\ [](/\ mrtrix_config.curvature = 0
             \/ mrtrix_config.curvature > CurvatureEps
          /\ (backend = "MRtrix" /\ last.op = "curvature") =>
                mrtrix_config.curvature =
                  IF last.n <= CurvatureEps THEN 0 ELSE last.n)
    /\ [][(/\ last'.op # "curvature"
           /\ ~(last'.op \in {"tracking_mode", "SD"} /\ last'.changed))
          => mrtrix_config'.curvature = mrtrix_config.curvature]_vars

\* C4 witness: exactly 1e-6 was assigned over a positive curvature and 0.0
\* is read back.
C4_Witness ==
    /\ backend = "MRtrix"
    /\ last.op = "curvature" /\ last.n = CurvatureEps
    /\ last.old_curvature > CurvatureEps
    /\ mrtrix_config.curvature = 0

\* C5: on Camino_tracking_config, as long as trace was never assigned
\* directly, trace is its initial value while units = m^2/s and 1e6 times
\* its initial value while units = s/mm^2, after any sequence of unit
\* assignments (those of the value already held included).
C5_TraceFollowsUnits ==
    (backend = "Camino" /\ ~trace_written) =>
        /\ camino_config.trace.mant = TraceDefault.mant
        /\ camino_config.units = "m^2/s" =>
             camino_config.trace.exp10 = TraceDefault.exp10
        /\ camino_config.units = "s/mm^2" =>
             camino_config.trace.exp10 = TraceDefault.exp10 + 6

\* C5 witness: units was changed back to m^2/s (so it had been changed to
\* s/mm^2 before) and trace is the initial value again.
C5_Witness ==
    /\ backend = "Camino" /\ ~trace_written
    /\ last.op = "units" /\ last.changed
    /\ camino_config.units = "m^2/s"
    /\ camino_config.trace = TraceDefault

\* C6: each of create_dipy/mrtrix/camino_tracking_flow either returns a
\* graph in which outputnode.track_file and every mandatory input of every
\* stage has an incoming edge, or raises IncompleteWiringError.  The code
\* never raises it and, for a tracking_mode that is neither Deterministic
\* nor Probabilistic, returns a graph that feeds no track_file.
C6_CompleteOrIncompleteWiringError ==
    (last.op = "compile" /\ backend \in {"Dipy", "MRtrix", "Camino"}) =>
        \/ raised = "IncompleteWiringError"
        \/ /\ raised = "none"
           /\ Fed(flow, outputnode, "track_file")
           /\ \A n \in flow.nodes :
                \A port \in MandatoryInputs(n.interface) : Fed(flow, n, port)

\* C7: in every returned graph every field declared on inputnode has an
\* outgoing edge to an internal stage and every field declared on
\* outputnode an incoming edge from an internal stage.
\* The code declares on inputnode the inputs of all branches and connects
\* those the chosen branch uses: the Dipy tensor graph leaves T1, bvals,
\* bvecs, fod_file, partial_volumes and gm_registered unconnected, and a
\* graph compiled with no tracking mode leaves outputnode.track_file unfed.
C7_EveryBoundaryFieldConnected ==
    \A b \in Backends :
        Compiled(b) =>
            /\ \A field \in InputnodeFields(b) : InputUsed(flow, field)
            /\ \A field \in OutputnodeFields(b) : OutputFed(flow, field)

\* C8: compiling the MRtrix backend with seed_from_gmwmi = true and use_act
\* = false raises UnsupportedBackendCombinationError and returns no graph.
\* The code raises nothing and returns a graph.
C8_InterfaceSeedingWithoutActRejected ==
    (last.op = "compile" /\ backend = "MRtrix"
     /\ mrtrix_config.seed_from_gmwmi /\ ~mrtrix_config.use_act) =>
        /\ raised = "UnsupportedBackendCombinationError"
        /\ flow = Workflow

\* C9: for every MRtrix configuration with use_act = false and tracking_mode
\* Deterministic or Probabilistic, the compiled graph feeds the tracking
\* stage's mask_file and seed_file from inputnode.wm_mask_resampled and
\* feeds it neither the 5-tissue-type segmentation nor the grey/white
\* interface volume.  Violated when seed_from_gmwmi is held true.
C9_PlainMaskWithoutAct ==
    (Compiled("MRtrix") /\ ~mrtrix_config.use_act
     /\ mrtrix_config.tracking_mode \in {"Deterministic", "Probabilistic"}) =>
        /\ TrackingStages(flow) # {}
        /\ \A t \in TrackingStages(flow) :
             /\ FedFromInput(flow, "wm_mask_resampled", t, "mask_file")
             /\ FedFromInput(flow, "wm_mask_resampled", t, "seed_file")
             /\ \A e \in flow.edges :
                  e.dst = t =>
                    e.srcport \notin {"act_5tt_registered", "gmwmi_registered"}

\* C10: compiling the Dipy backend with SD = false and imaging_model other
\* than DSI yields, for every tracking_mode, a graph with no seed-mask
\* generator stage and exactly one tracking stage, whose incoming edges all
\* start at inputnode and whose output feeds outputnode.track_file.
C10_TensorPathDirectFromInput ==
    (last.op = "compile" /\ backend = "Dipy"
     /\ ~dipy_config.SD /\ dipy_config.imaging_model # "DSI") =>
        /\ raised = "none"
        /\ SeedStages(flow) = {}
        /\ Cardinality(TrackingStages(flow)) = 1
        /\ \A t \in TrackingStages(flow) :
             /\ \E e \in flow.edges : e.dst = t
             /\ \A e \in flow.edges : e.dst = t => e.src = inputnode
             /\ \E e \in flow.edges :
                  e.src = t /\ e.dst = outputnode /\ e.dstport = "track_file"

\* C10 witness: the tensor path was compiled in Probabilistic mode for DTI
\* data and the graph holds its tracking stage.
C10_Witness ==
    /\ Compiled("Dipy")
    /\ ~dipy_config.SD /\ dipy_config.imaging_model = "DTI"
    /\ dipy_config.tracking_mode = "Probabilistic"
    /\ Node("dipy_dtieudx_tracking", "TensorInformedEudXTractography")
         \in flow.nodes

\* C11: on the Dipy CSD path the compiled graph holds a seed-mask generator
\* fed from inputnode, and a directed path leads from inputnode through that
\* generator to the direction-getter tracking stage.
C11_SeedGeneratorBetweenInputAndTracking ==
    (Compiled("Dipy") /\ DipyCsdPath) =>
        \E g \in SeedStages(flow) :
            /\ \E e \in flow.edges : e.src = inputnode /\ e.dst = g
            /\ \E t \in TrackingStages(flow) :
                 t.interface = "DirectionGetterTractography"
                 /\ Upstream(flow, g, t)

\* C18: in every MRtrix graph compiled in one of the two tracking modes,
\* use_act makes the tracking stage take act_file from inputnode's
\* act_5tt_registered and backtrack and crop_at_gmwmi from the configuration,
\* and the stage has exactly one seed edge: seed_gmwmi from gmwmi_registered
\* when seed_from_gmwmi is set, seed_file from wm_mask_resampled otherwise.
C18_ActInputsAndOneSeedSource ==
    (Compiled("MRtrix") /\ MRtrixTracked) =>
        /\ TrackingStages(flow) # {}
        /\ \A t \in TrackingStages(flow) :
             /\ mrtrix_config.use_act =>
                  /\ FedFromInput(flow, "act_5tt_registered", t, "act_file")
                  /\ HasInput(flow, t, "backtrack", mrtrix_config.backtrack)
                  /\ HasInput(flow, t, "crop_at_gmwmi",
                              mrtrix_config.crop_at_gmwmi)
             /\ {e \in flow.edges :
                    e.dst = t /\ e.dstport \in MRtrixSeedPorts}
                  = {IF mrtrix_config.seed_from_gmwmi
                       THEN Edge(inputnode, "gmwmi_registered", t,
                                 "seed_gmwmi")
                       ELSE Edge(inputnode, "wm_mask_resampled", t,
                                 "seed_file")}

\* C18 witness: a Probabilistic graph compiled with use_act and
\* seed_from_gmwmi set, backtrack cleared and crop_at_gmwmi kept.
C18_Witness ==
    /\ Compiled("MRtrix")
    /\ mrtrix_config.tracking_mode = "Probabilistic"
    /\ mrtrix_config.use_act /\ mrtrix_config.seed_from_gmwmi
    /\ ~mrtrix_config.backtrack /\ mrtrix_config.crop_at_gmwmi
    /\ \E t \in TrackingStages(flow) :
         /\ Fed(flow, t, "act_file") /\ Fed(flow, t, "seed_gmwmi")
         /\ HasInput(flow, t, "backtrack", FALSE)

\* C19: every MRtrix graph compiled in one of the two tracking modes holds
\* an erosion stage fed by inputnode's wm_mask_resampled, and a directed path
\* leads from that stage to the tracking stage.
C19_ErosionUpstreamOfTracking ==
    (Compiled("MRtrix") /\ MRtrixTracked) =>
        \E w \in flow.nodes :
            /\ w.interface = "Erode"
            /\ FedFromInput(flow, "wm_mask_resampled", w, "in_file")
            /\ \E t \in TrackingStages(flow) : Upstream(flow, w, t)

\* C20: on the Dipy CSD path the direction-getter stage has recon_model
\* SHORE exactly for DSI data and otherwise CSD with recon_order equal to
\* sh_order, its algo names the tracking mode, and its fod_file port is
\* connected exactly for DSI data.
C20_ReconModelAlgoAndFod ==
    (Compiled("Dipy") /\ DipyCsdPath) =>
        /\ TrackingStages(flow) # {}
        /\ \A t \in TrackingStages(flow) :
             /\ t.interface = "DirectionGetterTractography"
             /\ IF dipy_config.imaging_model = "DSI"
                  THEN HasInput(flow, t, "recon_model", "SHORE")
                  ELSE /\ HasInput(flow, t, "recon_model", "CSD")
                       /\ HasInput(flow, t, "recon_order",
                                   dipy_config.sh_order)
             /\ HasInput(flow, t, "algo",
                   IF dipy_config.tracking_mode = "Deterministic"
                     THEN "deterministic" ELSE "probabilistic")
             /\ Fed(flow, t, "fod_file")
                  <=> dipy_config.imaging_model = "DSI"

\* C20 witness: HARDI data with SD set and sh_order changed to 6, compiled
\* in Probabilistic mode; the stage carries CSD of order 6 and no fod_file.
C20_Witness ==
    /\ Compiled("Dipy")
    /\ dipy_config.SD /\ dipy_config.imaging_model = "HARDI"
    /\ dipy_config.tracking_mode = "Probabilistic"
    /\ dipy_config.sh_order = 6
    /\ \E t \in TrackingStages(flow) :
         /\ HasInput(flow, t, "recon_order", 6)
         /\ HasInput(flow, t, "algo", "probabilistic")
         /\ ~Fed(flow, t, "fod_file")

(***************************************************************************)
(* Properties of the seed-mask interfaces                                  *)
(***************************************************************************)
\* Two volumes share a voxel grid: the same shape and the same affine.
SameGrid(a, b) == Len(a.data) = Len(b.data) /\ a.affine = b.affine

Ran(interface) == seeds.interface = interface

\* The distinct non-zero labels of a region volume
Labels(vol) == {vol.data[k] : k \in DOMAIN vol.data} \ {0}

Written == {seeds.writes[j] : j \in DOMAIN seeds.writes}

\* C12: make_seeds run on one region volume and a tissue mask of the same
\* grid returns, writes exactly one seed volume for each distinct non-zero
\* label and reports as many; every seed volume holds only 0 and 1, and a
\* voxel valued 1 is a voxel where the tissue mask is non-zero.
C12_OneBinarySeedPerLabel ==
    (/\ Ran("make_seeds")
     /\ Len(seeds.ROI_files) = 1
     /\ SameGrid(seeds.ROI_files[1].vol, seeds.WM_file.vol)) =>
        LET roi == seeds.ROI_files[1].vol
            wm == seeds.WM_file.vol.data
        IN /\ seeds.raised = "none"
           /\ Len(seeds.writes) = Cardinality(Labels(roi))
           /\ Len(seeds.seed_files) = Cardinality(Labels(roi))
           /\ \A l \in Labels(roi) : \E w \in Written : w.label = l
           /\ \A w \in Written :
                /\ w.label \in Labels(roi)
                /\ DOMAIN w.data = DOMAIN wm
                /\ \A k \in DOMAIN w.data :
                     /\ w.data[k] \in {0, 1}
                     /\ w.data[k] = 1 => wm[k] # 0

\* C12 witness: one region volume with two labels, one of which has no
\* overlap with the tissue mask; its seed volume is written and all zero,
\* the other label's seed volume has a voxel valued 1.
C12_Witness ==
    /\ Ran("make_seeds")
    /\ Len(seeds.ROI_files) = 1
    /\ SameGrid(seeds.ROI_files[1].vol, seeds.WM_file.vol)
    /\ Cardinality(Labels(seeds.ROI_files[1].vol)) = 2
    /\ \E w \in Written : \A k \in DOMAIN w.data : w.data[k] = 0
    /\ \E w \in Written : \E k \in DOMAIN w.data : w.data[k] = 1

\* C13: every volume make_mrtrix_seeds writes for a region volume on the
\* grid of the tissue mask equals region * tissue voxel by voxel.
C13_MergedSeedIsProduct ==
    Ran("make_mrtrix_seeds") =>
        \A n \in DOMAIN seeds.ROI_files :
            SameGrid(seeds.ROI_files[n].vol, seeds.WM_file.vol) =>
                /\ \E w \in Written : w.n = n
                /\ \A w \in Written :
                     w.n = n =>
                       /\ DOMAIN w.data = DOMAIN seeds.WM_file.vol.data
                       /\ \A k \in DOMAIN w.data :
                            w.data[k] = seeds.ROI_files[n].vol.data[k]
                                        * seeds.WM_file.vol.data[k]

\* C13 witness: a merged seed volume that keeps a label above 1 and holds
\* a product above every label.
C13_Witness ==
    /\ Ran("make_mrtrix_seeds")
    /\ SameGrid(seeds.ROI_files[1].vol, seeds.WM_file.vol)
    /\ \E w \in Written :
         /\ w.n = 1
         /\ \E k \in DOMAIN w.data : w.data[k] = MaxLabel
         /\ \E k \in DOMAIN w.data : w.data[k] > MaxLabel

\* C14: a run of either interface on a region volume that does not share
\* the voxel grid of the tissue mask raises GridMismatchError and writes no
\* seed volume.
C14_GridMismatchRejected ==
    (/\ seeds.interface # ""
     /\ \E n \in DOMAIN seeds.ROI_files :
          ~SameGrid(seeds.ROI_files[n].vol, seeds.WM_file.vol)) =>
        /\ seeds.raised = "GridMismatchError"
        /\ seeds.writes = <<>>

\* C17: any two seed files make_seeds writes in one run, for distinct
\* (region volume, label) pairs, have distinct paths, and each path embeds
\* the label it was written for.
C17_SeedPathsDistinct ==
    Ran("make_seeds") =>
        /\ \A w \in Written : w.path.label = w.label
        /\ \A i, j \in DOMAIN seeds.writes :
             i # j => seeds.writes[i].path # seeds.writes[j].path

(***************************************************************************)
(* Properties of match_orientations                                        *)
(***************************************************************************)
\* The sign of an axis: -1 iff the reference axis code differs from the
\* voxel_order character of the file read.
Sign(i) ==
    IF orient.ref.axcode[i] = orient.trackvis_file.hdr.voxel_order[i]
      THEN 1 ELSE -1

\* C15: after a run, the file written has as many streamlines, in the same
\* order, with as many points each as the file read; every point p is
\* mapped, axis by axis, to sign * (p - origin) + voxel_size / 2; the
\* voxel_order written is the three reference axis codes; and the arrays
\* read are unchanged.
C15_PointsRemappedAxisByAxis ==
    orient.runs > 0 =>
        LET in == orient.trackvis_file
            out == orient.out
        IN /\ out.hdr.voxel_order = orient.ref.axcode
           /\ DOMAIN out.fib = DOMAIN in.fib
           /\ orient.fib = in.fib
           /\ \A s \in DOMAIN in.fib :
                /\ DOMAIN out.fib[s] = DOMAIN in.fib[s]
                /\ \A j \in DOMAIN in.fib[s] : \A i \in Axes :
                     2 * out.fib[s][j][i] =
                        2 * Sign(i) * (in.fib[s][j][i] - in.hdr.origin[i])
                        + orient.ref.voxel_size[i]

\* C15 witness: a file with a non-zero origin and two streamlines of
\* different lengths was corrected against a reference image that flips
\* one axis and keeps another.
C15_Witness ==
    /\ orient.runs = 1
    /\ orient.trackvis_file.hdr.origin # <<0, 0, 0>>
    /\ Len(orient.trackvis_file.fib) = 2
    /\ Len(orient.trackvis_file.fib[1]) # Len(orient.trackvis_file.fib[2])
    /\ Sign(1) = -1 /\ Sign(3) = 1
    /\ Len(orient.out.fib) = 2

\* C16: for a file with origin zero, corrected to a reference image and
\* then back to a reference image with the axis codes of its own
\* voxel_order and the same voxel size, every axis of every point differs
\* from the original by one offset, the same for all points, that is a
\* multiple of half the voxel size; no axis is left flipped.
C16_RoundTripUpToVoxelOffset ==
    (/\ orient.runs = 2
     /\ orient.source.hdr.origin = <<0, 0, 0>>
     /\ orient.ref.voxel_size = orient.trackvis_file.hdr.voxel_size) =>
        /\ DOMAIN orient.out.fib = DOMAIN orient.source.fib
        /\ \A i \in Axes :
             \E m \in {-2, -1, 0, 1, 2} :
               \A s \in DOMAIN orient.source.fib :
                 /\ DOMAIN orient.out.fib[s] = DOMAIN orient.source.fib[s]
                 /\ \A j \in DOMAIN orient.source.fib[s] :
                      2 * (orient.out.fib[s][j][i]
                           - orient.source.fib[s][j][i])
                        = m * orient.ref.voxel_size[i]

\* C16 witness: a round trip through a reference image that flips one axis
\* and keeps another, on a streamline with two different points.
C16_Witness ==
    /\ orient.runs = 2
    /\ orient.source.hdr.origin = <<0, 0, 0>>
    /\ orient.ref.voxel_size = orient.trackvis_file.hdr.voxel_size
    /\ orient.trackvis_file.hdr.voxel_order[1]
         # orient.source.hdr.voxel_order[1]
    /\ orient.trackvis_file.hdr.voxel_order[3]
         = orient.source.hdr.voxel_order[3]
    /\ \E s \in DOMAIN orient.source.fib :
         /\ Len(orient.source.fib[s]) = 2
         /\ orient.source.fib[s][1] # orient.source.fib[s][2]
         /\ orient.out.fib[s][1][1] = orient.source.fib[s][1][1]
         /\ orient.out.fib[s][1][3] # orient.source.fib[s][1][3]

(***************************************************************************)
(* Properties of the Camino, FSL and Gibbs graphs                          *)
(***************************************************************************)
LutStages(f) == {n \in f.nodes : n.interface = "DTLUTGen"}
MergeStages(f) == {n \in f.nodes : n.interface = "Merge"}
PdfStages(f) == {n \in f.nodes : n.interface = "PicoPDFs"}

\* The edges into the port `port` of node n
InEdges(f, n, port) == {e \in f.edges : e.dst = n /\ e.dstport = port}

\* C21: in the Probabilistic Camino graph a lookup-table stage dtlutgen2
\* carrying fallback_index and a merge stage exist exactly when
\* inversion_index >= 10; then luts of the PDF stage is fed by the merge
\* alone, the merge by both tables, and inputmodel is multitensor; otherwise
\* one lookup-table stage feeds luts directly and inputmodel is dt.
C21_SecondTableIffMultitensor ==
    (Compiled("Camino") /\ camino_config.tracking_mode = "Probabilistic") =>
        \E pdf \in PdfStages(flow) :
            /\ PdfStages(flow) = {pdf}
            /\ IF camino_config.inversion_index >= 10
                 THEN /\ Cardinality(LutStages(flow)) = 2
                      /\ \E l2 \in LutStages(flow) :
                           /\ l2.name = "dtlutgen2"
                           /\ HasInput(flow, l2, "inversion",
                                       camino_config.fallback_index)
                      /\ \E m \in MergeStages(flow) :
                           /\ MergeStages(flow) = {m}
                           /\ {e.src : e \in InEdges(flow, pdf, "luts")} = {m}
                           /\ {e.src : e \in {x \in flow.edges : x.dst = m}}
                                = LutStages(flow)
                      /\ HasInput(flow, pdf, "inputmodel", "multitensor")
                 ELSE /\ Cardinality(LutStages(flow)) = 1
                      /\ MergeStages(flow) = {}
                      /\ {e.src : e \in InEdges(flow, pdf, "luts")}
                           = LutStages(flow)
                      /\ HasInput(flow, pdf, "inputmodel", "dt")

\* C21 witness: a Probabilistic Camino graph compiled with
\* inversion_index 10 and fallback_index changed to 2; dtlutgen2 carries 2.
C21_Witness ==
    /\ Compiled("Camino")
    /\ camino_config.tracking_mode = "Probabilistic"
    /\ camino_config.inversion_index = 10
    /\ camino_config.fallback_index = 2
    /\ \E l2 \in LutStages(flow) :
         l2.name = "dtlutgen2" /\ HasInput(flow, l2, "inversion", 2)
    /\ MergeStages(flow) # {}

GibbsStages(f) == {n \in f.nodes : n.interface = "gibbs_tracking"}
OrientStages(f) == {n \in f.nodes : n.interface = "match_orientations"}

\* track_file of outputnode comes from the orientation corrector alone,
\* which reads the tool's bundle and takes inputnode's wm_mask_resampled as
\* its reference image.
TrackFileThroughCorrector ==
    \E g \in GibbsStages(flow), m \in OrientStages(flow) :
        /\ GibbsStages(flow) = {g} /\ OrientStages(flow) = {m}
        /\ InEdges(flow, outputnode, "track_file")
             = {Edge(m, "out_file", outputnode, "track_file")}
        /\ InEdges(flow, m, "trackvis_file")
             = {Edge(g, "out_file", m, "trackvis_file")}
        /\ InEdges(flow, m, "ref_image_file")
             = {Edge(inputnode, "wm_mask_resampled", m, "ref_image_file")}
        /\ \A e \in flow.edges : e.dst = g => e.src = inputnode

\* C23 (as stated): in the Gibbs graph track_file comes through the
\* corrector as above, and no edge leads from the tool stage to outputnode.
C23_ChainWithNoEdgePastCorrector ==
    Compiled("Gibbs") =>
        /\ TrackFileThroughCorrector
        /\ \A e \in flow.edges :
             ~(e.src \in GibbsStages(flow) /\ e.dst = outputnode)

\* C23 (amended): in the Gibbs graph track_file comes through the corrector
\* as above, and the only edge from the tool stage to outputnode carries
\* param_file.
C23_TrackFileOnlyThroughCorrector ==
    Compiled("Gibbs") =>
        /\ TrackFileThroughCorrector
        /\ \A e \in flow.edges :
             (e.src \in GibbsStages(flow) /\ e.dst = outputnode) =>
                 (e.srcport = "param_file" /\ e.dstport = "param_file")

\* C23 witness: a compiled Gibbs graph in which the tool stage feeds the
\* corrector and, beside it, param_file of outputnode.
C23_Witness ==
    /\ Compiled("Gibbs")
    /\ \E g \in GibbsStages(flow) :
         /\ \E m \in OrientStages(flow) : Upstream(flow, g, m)
         /\ Edge(g, "param_file", outputnode, "param_file") \in flow.edges

\* C27: with use_act false, compiling the MRtrix configuration with any
\* other values of backtrack and crop_at_gmwmi gives the graph, node
\* parameters included, that the configuration itself compiles to.
C27_FlagsIgnoredWithoutAct ==
    (Compiled("MRtrix") /\ ~mrtrix_config.use_act) =>
        \A bt, cr \in BOOLEAN :
            create_mrtrix_tracking_flow(
              [mrtrix_config EXCEPT !.backtrack = bt,
                                    !.crop_at_gmwmi = cr]).flow = flow

\* C27 witness: a Deterministic graph compiled with use_act false while
\* backtrack and crop_at_gmwmi differ from each other.
C27_Witness ==
    /\ Compiled("MRtrix")
    /\ mrtrix_config.tracking_mode = "Deterministic"
    /\ ~mrtrix_config.use_act
    /\ mrtrix_config.backtrack /\ ~mrtrix_config.crop_at_gmwmi
    /\ \E t \in TrackingStages(flow) : Fed(flow, t, "mask_file")

\* The parameter `name` of node n was never assigned.
NoInput(f, n, name) ==
    ~\E i \in f.inputs : i.node = n.name /\ i.name = name

\* C28: in a Deterministic MRtrix graph rk4 of the tracking stage is set
\* exactly when curvature >= 1e-6, which is exactly when curvature is not
\* zero, and inputmodel is SD_Stream; in a Probabilistic graph rk4 is not
\* set and inputmodel is iFOD2 when SD is true and Tensor_Prob otherwise.
C28_SolverModeSelection ==
    (Compiled("MRtrix") /\ MRtrixTracked) =>
        /\ TrackingStages(flow) # {}
        /\ \A t \in TrackingStages(flow) :
             IF mrtrix_config.tracking_mode = "Deterministic"
               THEN /\ HasInput(flow, t, "inputmodel", "SD_Stream")
                    /\ IF mrtrix_config.curvature >= 10
                         THEN HasInput(flow, t, "rk4", TRUE)
                         ELSE NoInput(flow, t, "rk4")
                    /\ (mrtrix_config.curvature >= 10)
                         <=> (mrtrix_config.curvature # 0)
               ELSE /\ NoInput(flow, t, "rk4")
                    /\ HasInput(flow, t, "inputmodel",
                          IF mrtrix_config.SD THEN "iFOD2"
                          ELSE "Tensor_Prob")

\* C28 witness: a Deterministic graph compiled with SD set, hence with
\* curvature 0: inputmodel is SD_Stream and rk4 is not set.
C28_Witness ==
    /\ Compiled("MRtrix")
    /\ mrtrix_config.tracking_mode = "Deterministic"
    /\ mrtrix_config.SD /\ mrtrix_config.curvature = 0
    /\ \E t \in TrackingStages(flow) :
         HasInput(flow, t, "inputmodel", "SD_Stream")
         /\ NoInput(flow, t, "rk4")

\* C22: the probtrackx MapNode runs once for each seed file reported, and
\* invocation k takes seed file k as its seed and seed file k alone as its
\* target masks.
\* The code iterates over seed only (iterfield = ['seed']); target_masks
\* is fed the same seed_files output and is not iterated, so every
\* invocation takes the whole list of seed files as its target masks.
C22_OwnSeedAsOnlyTarget ==
    fanout.ran =>
        /\ Len(fanout.runs) = Len(seeds.seed_files)
        /\ \A k \in DOMAIN fanout.runs :
             /\ fanout.runs[k]["seed"] = <<seeds.seed_files[k]>>
             /\ fanout.runs[k]["target_masks"] = <<seeds.seed_files[k]>>

\* C25: in every seed volume make_seeds writes for a label of a region
\* volume on the grid of the tissue mask, a voxel valued 1 carries that
\* label in the region volume.
C25_SeedWithinOwnLabel ==
    Ran("make_seeds") =>
        \A w \in Written :
            SameGrid(seeds.ROI_files[w.n].vol, seeds.WM_file.vol) =>
                \A k \in DOMAIN w.data :
                    w.data[k] = 1 =>
                        seeds.ROI_files[w.n].vol.data[k] = w.label

\* C26: after a run of make_seeds that returned, the paths in seed_files
\* are exactly the paths of the seed files written.
C26_ReportedSeedsAreWrittenSeeds ==
    (Ran("make_seeds") /\ seeds.raised = "none") =>
        {seeds.seed_files[j] : j \in DOMAIN seeds.seed_files}
          = {w.path : w \in Written}

(***************************************************************************)
(* Properties of the streamline-filtering interfaces                       *)
(***************************************************************************)
FilterRan(interface) == filt.interface = interface /\ filt.ran

\* The names of the tools called, in the order of the calls
ToolsCalled == [k \in DOMAIN filt.calls |-> filt.calls[k].tool]

\* C24: a run of StreamlineAndFilter returns; it calls the streamline
\* generator, then the spline filter iff spline_filter, then the length
\* filter iff fiberlength_filter; each filter reads the track file the
\* call before it left; the out_file reported is the track file the last
\* call left, which with both flags false is the generator's out_file.
C24_SubStagesFollowFlags ==
    FilterRan("StreamlineAndFilter") =>
        LET in == filt.inputs
            raw == abspath(in.out_file)
            last_call == Len(filt.calls)
        IN /\ filt.raised = "none"
           /\ ToolsCalled =
                <<"DTB_streamline">>
                  \o (IF in.spline_filter THEN <<"SplineFilter">> ELSE <<>>)
                  \o (IF in.fiberlength_filter THEN <<"filter_fibers">>
                      ELSE <<>>)
           /\ filt.calls[1].out = raw
           /\ in.spline_filter => filt.calls[2].args.track_file = raw
           /\ in.fiberlength_filter =>
                filt.calls[last_call].args.intrk
                  = filt.calls[last_call - 1].out
           /\ filt.outputs[1].out_file = filt.calls[last_call].out
           /\ (~in.spline_filter /\ ~in.fiberlength_filter) =>
                filt.outputs[1].out_file = raw

\* C24 witness: a run with both filters enabled has reported its out_file.
C24_Witness ==
    /\ FilterRan("StreamlineAndFilter")
    /\ filt.inputs.spline_filter
    /\ filt.inputs.fiberlength_filter
    /\ Len(filt.calls) = 3
    /\ filt.outputs # <<>>

\* C29: a run of CMTK_filterfibers returns after one call of the filter;
\* with filtered_track_file undefined it reports <base of
\* track_file>_cutfiltered<ext> in the working directory, and with
\* filtered_track_file given the filter is called with that path as its
\* output and the same path is reported.
C29_BothInputShapesComplete ==
    FilterRan("CMTK_filterfibers") =>
        LET in == filt.inputs
        IN /\ filt.raised = "none"
           /\ ToolsCalled = <<"filter_fibers">>
           /\ IF in.filtered_track_file = <<>>
                THEN filt.outputs[1].filtered_track_file =
                       [dir |-> "cwd", base |-> in.track_file.base,
                        ext |-> in.track_file.ext,
                        suffix |-> "_cutfiltered"]
                ELSE /\ filt.calls[1].args.outtrk = in.filtered_track_file
                     /\ filt.outputs[1].filtered_track_file =
                          abspath(in.filtered_track_file[1])

(***************************************************************************)
(* Properties of the segmentation workflow                                 *)
(***************************************************************************)
\* The nodes of the workflow that copy to the given path
CopiesTo(f, out_file) ==
    {n \in f.nodes :
       /\ n.interface = "copyFileToFreesurfer"
       /\ \E a \in f.inputs :
            a.node = n.name /\ a.name = "out_file" /\ a.value = out_file}

\* The nodes of the workflow of the given name
Named(f, name) == {n \in f.nodes : n.name = name}

\* C30: in the workflow built for Freesurfer without existing data and
\* with the FSL brain mask, whenever reconall23 has been started, the node
\* copying to brainmask.mgz and the node copying to brainmask.auto.mgz
\* have both finished.
C30_FinalReconAfterBothMaskCopies ==
    (/\ seg.built
     /\ seg.config.seg_tool = "Freesurfer"
     /\ ~seg.config.use_existing_freesurfer_data
     /\ seg.config.use_fsl_brain_mask
     /\ Named(seg.flow, "reconall23") \cap seg.started # {}) =>
        /\ CopiesTo(seg.flow, "mri/brainmask.mgz") # {}
        /\ CopiesTo(seg.flow, "mri/brainmask.auto.mgz") # {}
        /\ CopiesTo(seg.flow, "mri/brainmask.mgz") \subseteq seg.done
        /\ CopiesTo(seg.flow, "mri/brainmask.auto.mgz") \subseteq seg.done
====
